---- MODULE Spec2Model ----
(***************************************************************************)
(* Model of the decision-execution loop of the trading engine:             *)
(*   - the trade aggregate (trade_ai/domain/entities),                     *)
(*   - the CSV trade store and the JSONL logs (infrastructure/storage),    *)
(*   - the open / resolve use cases (application/usecases),                *)
(*   - the entry point and the paper/live loop (apps/runtime_trader.py).   *)
(* Prices, times and quantities are small integers; an absent (None)       *)
(* value is the integer None.  Hash-derived ids (snapshot id, decision     *)
(* id) are modelled by the tuple that is hashed, uuid4 ids by a counter.   *)
(***************************************************************************)
EXTENDS Integers, Sequences, FiniteSets, TLC

\* ------------------------------------------------------------------ bounds
MaxTicks == 2
MaxTrades == 2
MaxBar == 2
MaxApiCalls == 4

\* ------------------------------------------------------------ basic values
None == -1

NoReward == [kind |-> "none"]

IsSet(v) == v # None

\* Python truthiness of an optional number: None and 0 are both falsy.
Truthy(v) == v # None /\ v # 0

Max2(a, b) == IF a >= b THEN a ELSE b

Min2(a, b) == IF a <= b THEN a ELSE b

RECURSIVE SeqMax(_)
SeqMax(s) == IF Len(s) = 1 THEN s[1] ELSE Max2(s[1], SeqMax(Tail(s)))

RECURSIVE SeqMin(_)
SeqMin(s) == IF Len(s) = 1 THEN s[1] ELSE Min2(s[1], SeqMin(Tail(s)))

Range(s) == { s[i] : i \in DOMAIN s }

\* ------------------------------------------------------- execution state
\* ExecutionState(status=...) with every optional field left at its default.
ExecutionStateDefault(status) ==
  [ status |-> status,
    entry_time_utc |-> None, entry_fill_price |-> None,
    exit_time_utc |-> None, exit_fill_price |-> None, exit_type |-> "none",
    fees_total |-> 0,
    leverage |-> None, qty |-> None, notional |-> None,
    entry_order_id |-> None, tp_order_id |-> None, sl_order_id |-> None,
    client_order_id |-> None ]

\* ExecutionState.validate(): TRUE when it returns, FALSE when it raises.
\* No caller in the repository invokes it.
ExecutionStateValidate(e) ==
  /\ e.status \in {"OPEN", "CLOSED"}
  /\ e.status = "CLOSED" =>
       /\ IsSet(e.entry_time_utc) /\ IsSet(e.entry_fill_price)
       /\ IsSet(e.exit_time_utc) /\ IsSet(e.exit_fill_price)

\* ------------------------------------------------------- trade aggregate
\* TradeAggregate.create_open
CreateOpen(trade_id, symbol, entry_snapshot_id, entry_snapshot_time_utc, decision) ==
  [ trade_id |-> trade_id, symbol |-> symbol,
    entry_snapshot_id |-> entry_snapshot_id,
    entry_snapshot_time_utc |-> entry_snapshot_time_utc,
    exit_snapshot_id |-> << >>, exit_snapshot_time_utc |-> None,
    decision |-> decision,
    execution_state |-> ExecutionStateDefault("OPEN"),
    reward_state |-> NoReward ]

\* "if v is not None: set" of attach_execution
Merge(old, new) == IF new # None THEN new ELSE old

\* The body of attach_execution below its CLOSED guard.
AttachMerge(es, e) ==
  LET m == [ es EXCEPT
               !.entry_time_utc = Merge(@, e.entry_time_utc),
               !.entry_fill_price = Merge(@, e.entry_fill_price),
               !.leverage = Merge(@, e.leverage),
               !.qty = Merge(@, e.qty),
               !.notional = Merge(@, e.notional),
               !.entry_order_id = Merge(@, e.entry_order_id),
               !.tp_order_id = Merge(@, e.tp_order_id),
               !.sl_order_id = Merge(@, e.sl_order_id),
               !.client_order_id = Merge(@, e.client_order_id) ]
  IN IF e.status = "OPEN"
     THEN [ m EXCEPT !.fees_total = e.fees_total ]
     ELSE [ m EXCEPT !.exit_time_utc = e.exit_time_utc,
                     !.exit_fill_price = e.exit_fill_price,
                     !.exit_type = e.exit_type,
                     !.fees_total = e.fees_total,
                     !.status = "CLOSED" ]

\* Mutant: attach_execution without its "already closed" guard.
AttachExecutionNoClosedGuard(t, e) ==
  [ ok |-> TRUE, trade |-> [ t EXCEPT !.execution_state = AttachMerge(@, e) ] ]

\* TradeAggregate.attach_execution: ok = FALSE is TradeAggregateError.
AttachExecution(t, e) ==
  IF t.execution_state.status = "CLOSED"
  THEN [ ok |-> FALSE, trade |-> t ]
  ELSE [ ok |-> TRUE, trade |-> [ t EXCEPT !.execution_state = AttachMerge(@, e) ] ]

\* Mutant: attach_reward without its status check.
AttachRewardNoStatusCheck(t, r) ==
  [ ok |-> TRUE, trade |-> [ t EXCEPT !.reward_state = r ] ]

\* TradeAggregate.attach_reward: ok = FALSE is TradeAggregateError.
AttachReward(t, r) ==
  IF t.execution_state.status # "CLOSED"
  THEN [ ok |-> FALSE, trade |-> t ]
  ELSE [ ok |-> TRUE, trade |-> [ t EXCEPT !.reward_state = r ] ]

\* ------------------------------------------------------------- reward
\* calculate_mfe_mae_from_ohlc over bars [high, low]
CalculateMfeMae(entry_price, direction, bars) ==
  IF bars = << >> THEN [ mfe |-> 0, mae |-> 0 ]
  ELSE LET highs == [ i \in DOMAIN bars |-> bars[i].high ]
           lows == [ i \in DOMAIN bars |-> bars[i].low ]
       IN IF direction = "LONG"
          THEN [ mfe |-> SeqMax([ i \in DOMAIN highs |-> highs[i] - entry_price ]),
                 mae |-> SeqMin([ i \in DOMAIN lows |-> lows[i] - entry_price ]) ]
          ELSE [ mfe |-> SeqMax([ i \in DOMAIN lows |-> entry_price - lows[i] ]),
                 mae |-> 0 - SeqMin([ i \in DOMAIN highs |-> entry_price - highs[i] ]) ]

\* calculate_reward raises (ValueError / TypeError) unless this holds: the
\* execution is CLOSED, float() and the subtraction get non-None operands,
\* and risk_unit > 0.
RewardComputable(decision, execution) ==
  /\ execution.status = "CLOSED"
  /\ IsSet(execution.entry_fill_price) /\ IsSet(execution.exit_fill_price)
  /\ IsSet(execution.exit_time_utc) /\ IsSet(execution.entry_time_utc)
  /\ decision.risk_unit > 0

\* calculate_reward; pnl_raw and pnl_r (per-unit quotients) are not carried,
\* price_delta and pnl_usdt are.
CalculateReward(decision, execution, bars) ==
  LET dir_sign == IF decision.direction = "LONG" THEN 1 ELSE -1
      price_delta == (execution.exit_fill_price - execution.entry_fill_price) * dir_sign
      q == execution.qty
      mm == CalculateMfeMae(execution.entry_fill_price, decision.direction, bars)
  IN [ kind |-> "reward",
       price_delta |-> price_delta,
       holding_seconds |-> execution.exit_time_utc - execution.entry_time_utc,
       mfe |-> mm.mfe, mae |-> mm.mae,
       qty |-> q,
       pnl_usdt |-> IF q # None /\ q > 0 THEN q * price_delta - execution.fees_total ELSE None,
       risk_usdt |-> IF q # None /\ q > 0 THEN q * decision.risk_unit ELSE None ]

\* ------------------------------------------------------------ trade store
\* The two CSV files are sequences of aggregates (one row each); the header
\* line is not a row.

\* TradeRepoCSV.save_open
SaveOpen(olog, t) == Append(olog, t)

\* TradeRepoCSV.get_open: the last row of the id, or NoTrade.
NoTrade == [ trade_id |-> None ]

RECURSIVE GetOpen(_, _)
GetOpen(olog, trade_id) ==
  IF olog = << >> THEN NoTrade
  ELSE IF olog[Len(olog)].trade_id = trade_id THEN olog[Len(olog)]
       ELSE GetOpen(SubSeq(olog, 1, Len(olog) - 1), trade_id)

\* TradeRepoCSV.list_open: the last row of each id, in order of the id's
\* first row (dict insertion order).
RECURSIVE ListOpenFrom(_, _, _)
ListOpenFrom(olog, i, seen) ==
  IF i > Len(olog) THEN << >>
  ELSE IF olog[i].trade_id \in seen THEN ListOpenFrom(olog, i + 1, seen)
       ELSE << GetOpen(olog, olog[i].trade_id) >>
              \o ListOpenFrom(olog, i + 1, seen \cup { olog[i].trade_id })

ListOpen(olog) == ListOpenFrom(olog, 1, {})

\* TradeRepoCSV.update_closed: append to the closed file, rewrite the open
\* file without the rows of the id.
UpdateClosed(olog, clog, t) ==
  LET Keep(r) == r.trade_id # t.trade_id
  IN [ open |-> SelectSeq(olog, Keep), closed |-> Append(clog, t) ]

\* TradeRepoCSV.update_execution_state: result and the open file after it.
UpdateExecutionState(olog, trade_id, e) ==
  LET t == GetOpen(olog, trade_id)
  IN IF t = NoTrade THEN [ result |-> FALSE, open |-> olog ]
     ELSE LET a == AttachExecution(t, e)
          IN IF ~a.ok THEN [ result |-> FALSE, open |-> olog ]
             ELSE [ result |-> TRUE, open |-> SaveOpen(olog, a.trade) ]

\* ResolveTradeUsecase.resolve_trade: result "ok", or the error raised,
\* and both files after it.
ResolveTrade(olog, clog, trade_id, e, bars, exit_snapshot_id, exit_snapshot_time_utc) ==
  LET t == GetOpen(olog, trade_id)
      same == [ open |-> olog, closed |-> clog ]
  IN IF t = NoTrade THEN [ result |-> "not_found", files |-> same ]
     ELSE LET a == AttachExecution(t, e)
          IN IF ~a.ok THEN [ result |-> "already_closed", files |-> same ]
             ELSE IF a.trade.execution_state.status = "CLOSED"
             THEN LET t1 == [ a.trade EXCEPT !.exit_snapshot_id = exit_snapshot_id,
                                             !.exit_snapshot_time_utc = exit_snapshot_time_utc ]
                  IN IF ~RewardComputable(t1.decision, t1.execution_state)
                     THEN [ result |-> "reward_error", files |-> same ]
                     ELSE LET r == AttachReward(t1, CalculateReward(t1.decision, t1.execution_state, bars))
                          IN IF ~r.ok THEN [ result |-> "reward_error", files |-> same ]
                             ELSE [ result |-> "ok",
                                    files |-> UpdateClosed(olog, clog, r.trade) ]
             ELSE [ result |-> "ok",
                    files |-> [ open |-> SaveOpen(olog, a.trade), closed |-> clog ] ]

\* ------------------------------------------------------------------ state
VARIABLES
  pc,               \* position of the process: boot, exit, other, tick, monitor, open
  run,              \* what main() and the loop preamble read from the environment
  exit_code,        \* the process exit status (None while it runs)
  tick,             \* loop iterations started so far (all runs)
  bar,              \* index of the last closed LTF bar on the venue
  loc,              \* the loop's locals: monitored list, stale open list, indexes
  open_log,         \* trades_open.csv
  closed_log,       \* trades_closed.csv
  decision_cycles,  \* decision_cycles.jsonl
  orders_log,       \* orders.jsonl
  executions_log,   \* executions.jsonl
  snapshot_store,   \* ids of the files under snapshots/
  venue_calls,      \* state-changing calls made on the venue, with the mode
  next_uuid,        \* uuid4 supply
  obs,              \* what the last loop step observed and did
  agg,              \* an aggregate held in memory by a caller of the domain API
  last,             \* the last domain / repository API call and its outcome
  api_calls,        \* API calls made so far
  clock,            \* time.time() of the snapshot pipeline, in seconds
  snap_files,       \* the files under snapshots/: the stored snapshots
  snap_last,        \* the last call on the snapshot pipeline and its outcome
  risk_last,        \* the last call of RiskEngineV1.build_plan and its plan
  guard_last,       \* the last risk-guard gate of the loop and its outcome
  dataset,          \* the dataset exports: closed trades, state file, sets, rows
  uni_last          \* the last universe selection and its report

vars == << pc, run, exit_code, tick, bar, loc, open_log, closed_log,
           decision_cycles, orders_log, executions_log, snapshot_store,
           venue_calls, next_uuid, obs, agg, last, api_calls,
           clock, snap_files, snap_last, risk_last, guard_last, dataset, uni_last >>

loop_vars == << pc, run, exit_code, tick, bar, loc, decision_cycles,
                orders_log, executions_log, snapshot_store, venue_calls, obs >>

api_vars == << agg, last, api_calls >>

snap_vars == << clock, snap_files, snap_last >>

\* The state of the components that are specified on their own.
calc_vars == << risk_last, guard_last, dataset, uni_last >>

lib_vars == << snap_vars, calc_vars >>

NoSnapLast == [ op |-> "none" ]

NoCall == [ op |-> "none" ]

InitCalcIdle ==
  /\ risk_last = NoCall
  /\ guard_last = NoCall
  /\ dataset = NoCall
  /\ uni_last = NoCall

\* The components specified on their own, not in use.
InitLibIdle ==
  /\ clock = 0
  /\ snap_files = {}
  /\ snap_last = NoSnapLast
  /\ InitCalcIdle

NoObs == [ kind |-> "none" ]

NoLast == [ op |-> "none" ]

NoSettings == [ symbols |-> << >> ]

NoRun == [ live |-> FALSE, settings |-> NoSettings, symbols |-> << >>,
           max_open_positions |-> 0, use_risk_guard |-> FALSE ]

NoLoc == [ mon_list |-> << >>, m_idx |-> 0, tickers |-> << >>, open_trades |-> << >>,
           s_idx |-> 0, cycle_time_utc |-> 0 ]

\* The locals between two ticks, and the locals of a phase that is over:
\* only the cycle time of the tick is kept.
Sleeping(cycle_time_utc) == [ NoLoc EXCEPT !.cycle_time_utc = cycle_time_utc ]

Symbols == { "A", "B" }

\* ------------------------------------------------- decisions and inputs
\* RiskAwarePolicyV1.decide on a close of EntryPx with sl_distance SlDist and
\* rr RR: LONG when the 1h trend is "up", SHORT otherwise.
EntryPx == 10
SlDist == 1
RR == 2

PolicyDecide(direction, confidence) ==
  [ direction |-> direction,
    entry_price |-> EntryPx,
    sl_price |-> IF direction = "LONG" THEN EntryPx - SlDist ELSE EntryPx + SlDist,
    tp_price |-> IF direction = "LONG" THEN EntryPx + RR * SlDist ELSE EntryPx - RR * SlDist,
    risk_unit |-> SlDist,
    confidence |-> confidence ]

Directions == { "LONG", "SHORT" }

\* Executions a caller may hand to the API: an entry fill, an empty OPEN
\* update, a complete close, a close without entry data, a close with no
\* fill data at all.
ExecInput(status, entry, exit) ==
  [ ExecutionStateDefault(status) EXCEPT
      !.entry_time_utc = IF entry THEN 11 ELSE None,
      !.entry_fill_price = IF entry THEN EntryPx ELSE None,
      !.qty = IF entry THEN 1 ELSE None,
      !.exit_time_utc = IF exit THEN 12 ELSE None,
      !.exit_fill_price = IF exit THEN EntryPx + RR * SlDist ELSE None,
      !.exit_type = IF exit THEN "TP" ELSE "none" ]

ExecInputs ==
  { ExecInput("OPEN", TRUE, FALSE), ExecInput("OPEN", FALSE, FALSE),
    ExecInput("CLOSED", TRUE, TRUE), ExecInput("CLOSED", FALSE, TRUE),
    ExecInput("CLOSED", FALSE, FALSE) }

\* The synthetic two-bar window the loop hands to resolve_trade.
SyntheticBars(decision, exit_price) ==
  << [ high |-> Max2(decision.entry_price, decision.tp_price),
       low |-> Min2(decision.entry_price, decision.sl_price) ],
     [ high |-> Max2(decision.entry_price, exit_price),
       low |-> Min2(decision.entry_price, exit_price) ] >>

TradeIds == 1 .. MaxTrades

ClosedIds(clog) == { clog[i].trade_id : i \in DOMAIN clog }

\* ------------------------------------------ the domain / repository API
\* Each action is one call of a public method with arguments drawn from the
\* sets above; `last` records what the call saw and what it did.

\* OpenTradeUsecase.open_trade(snapshot_id, policy_info, decision_override)
\* on a stored snapshot of `sym`.
ApiOpenTrade(sym, direction) ==
  /\ api_calls < MaxApiCalls
  /\ next_uuid <= MaxTrades
  /\ LET ta == CreateOpen(next_uuid, sym, << sym, 1 >>, 10, PolicyDecide(direction, 100))
     IN /\ open_log' = SaveOpen(open_log, ta)
        /\ last' = [ op |-> "open_trade", trade_id |-> next_uuid, target_closed |-> FALSE,
                     input_status |-> "OPEN", result |-> "ok", changed |-> TRUE ]
  /\ next_uuid' = next_uuid + 1
  /\ api_calls' = api_calls + 1
  /\ UNCHANGED << closed_log, agg >>
  /\ UNCHANGED << loop_vars, lib_vars >>

\* TradeRepoCSV.update_execution_state(trade_id, e)
ApiUpdateExecutionState(trade_id, e) ==
  /\ api_calls < MaxApiCalls
  /\ LET t == GetOpen(open_log, trade_id)
         r == UpdateExecutionState(open_log, trade_id, e)
     IN /\ open_log' = r.open
        /\ last' = [ op |-> "update_execution_state", trade_id |-> trade_id,
                     target_closed |-> \/ trade_id \in ClosedIds(closed_log)
                                       \/ (t # NoTrade /\ t.execution_state.status = "CLOSED"),
                     input_status |-> e.status,
                     result |-> IF r.result THEN "true" ELSE "false",
                     changed |-> r.open # open_log ]
  /\ api_calls' = api_calls + 1
  /\ UNCHANGED << closed_log, agg, next_uuid >>
  /\ UNCHANGED << loop_vars, lib_vars >>

\* ResolveTradeUsecase.resolve_trade(trade_id, e, bars, exit snapshot)
ApiResolveTrade(trade_id, e) ==
  /\ api_calls < MaxApiCalls
  /\ LET t == GetOpen(open_log, trade_id)
         bars == IF t = NoTrade THEN << >>
                 ELSE SyntheticBars(t.decision, IF IsSet(e.exit_fill_price) THEN e.exit_fill_price ELSE EntryPx)
         r == ResolveTrade(open_log, closed_log, trade_id, e, bars, << "exit", 1 >>, 12)
     IN /\ open_log' = r.files.open
        /\ closed_log' = r.files.closed
        /\ last' = [ op |-> "resolve_trade", trade_id |-> trade_id,
                     target_closed |-> \/ trade_id \in ClosedIds(closed_log)
                                       \/ (t # NoTrade /\ t.execution_state.status = "CLOSED"),
                     input_status |-> e.status,
                     result |-> r.result,
                     changed |-> (r.files.open # open_log \/ r.files.closed # closed_log) ]
  /\ api_calls' = api_calls + 1
  /\ UNCHANGED << agg, next_uuid >>
  /\ UNCHANGED << loop_vars, lib_vars >>

\* A caller hydrates an aggregate: get_open(trade_id), or a row of
\* list_closed().
ApiLoad ==
  /\ api_calls < MaxApiCalls
  /\ \E t \in Range(ListOpen(open_log)) \cup Range(closed_log) :
       /\ agg' = t
       /\ last' = [ op |-> "load", trade_id |-> t.trade_id, target_closed |-> FALSE,
                    input_status |-> "none", result |-> "ok", changed |-> FALSE ]
  /\ api_calls' = api_calls + 1
  /\ UNCHANGED << open_log, closed_log, next_uuid >>
  /\ UNCHANGED << loop_vars, lib_vars >>

\* TradeAggregate.attach_execution(e) on the aggregate in memory.
ApiAttachExecution(e) ==
  /\ api_calls < MaxApiCalls
  /\ agg # NoTrade
  /\ LET a == AttachExecution(agg, e)
     IN /\ agg' = a.trade
        /\ last' = [ op |-> "attach_execution", trade_id |-> agg.trade_id,
                     target_closed |-> agg.execution_state.status = "CLOSED",
                     input_status |-> e.status,
                     result |-> IF a.ok THEN "ok" ELSE "error",
                     changed |-> a.trade # agg ]
  /\ api_calls' = api_calls + 1
  /\ UNCHANGED << open_log, closed_log, next_uuid >>
  /\ UNCHANGED << loop_vars, lib_vars >>

\* TradeAggregate.attach_reward(r) on the aggregate in memory.
ApiAttachReward ==
  /\ api_calls < MaxApiCalls
  /\ agg # NoTrade
  /\ LET r == [ kind |-> "reward", price_delta |-> 2, holding_seconds |-> 1,
                mfe |-> 2, mae |-> 0, qty |-> None, pnl_usdt |-> None, risk_usdt |-> None ]
         a == AttachReward(agg, r)
     IN /\ agg' = a.trade
        /\ last' = [ op |-> "attach_reward", trade_id |-> agg.trade_id,
                     target_closed |-> agg.execution_state.status = "CLOSED",
                     input_status |-> "none",
                     result |-> IF a.ok THEN "ok" ELSE "error",
                     changed |-> a.trade # agg ]
  /\ api_calls' = api_calls + 1
  /\ UNCHANGED << open_log, closed_log, next_uuid >>
  /\ UNCHANGED << loop_vars, lib_vars >>

InitStores ==
  /\ open_log = << >>
  /\ closed_log = << >>
  /\ decision_cycles = << >>
  /\ orders_log = << >>
  /\ executions_log = << >>
  /\ snapshot_store = {}
  /\ venue_calls = {}
  /\ next_uuid = 1

InitApi ==
  /\ agg = NoTrade
  /\ last = NoLast
  /\ api_calls = 0

InitTrade ==
  /\ InitStores
  /\ InitApi
  /\ InitLibIdle
  /\ pc = "api"
  /\ run = NoRun
  /\ exit_code = None
  /\ tick = 0
  /\ bar = 1
  /\ loc = NoLoc
  /\ obs = NoObs

NextTrade ==
  \/ \E sym \in Symbols, d \in Directions : ApiOpenTrade(sym, d)
  \/ \E id \in TradeIds, e \in ExecInputs : ApiUpdateExecutionState(id, e)
  \/ \E id \in TradeIds, e \in ExecInputs : ApiResolveTrade(id, e)
  \/ ApiLoad
  \/ \E e \in ExecInputs : ApiAttachExecution(e)
  \/ ApiAttachReward

SpecTrade == InitTrade /\ [][NextTrade]_vars

\* ---------------------------------------------------------- environment
\* An environment variable is a token; Unset is a variable that is not set.
Unset == "<unset>"

\* os.getenv(key, default)
Getenv(v, default) == IF v = Unset THEN default ELSE v

\* str.strip().lower() on the tokens the model draws.
LowerStrip(s) ==
  CASE s = " LIVE " -> "live"
    [] s = " TRUE" -> "true"
    [] s = "On " -> "on"
    [] OTHER -> s

BotModeTokens == { Unset, "", "live", " LIVE ", "demo", "bogus" }

\* What main() records of a variable it did not read.
NotRead == "<not read>"

BoolTokens == { Unset, "0", "no", "1", " TRUE", "On " }

\* _env_bool(key, default)
EnvBool(v, default) == LowerStrip(Getenv(v, default)) \in { "1", "true", "yes", "y", "on" }

\* BOT_SYMBOLS as parsed by _parse_symbols_from_env: an explicit list, kept
\* in order and with its duplicates.  (BOT_SYMBOLS=AUTO, the universe
\* selection and its refresh, is not part of the model.)
SymbolLists == { << "A", "B" >>, << "A", "A" >> }

\* MAX_OPEN_POSITIONS (unset, or an integer) with
\* PAPER_RESPECT_MAX_OPEN_POSITIONS: the defaults, a respected limit of 1,
\* an explicit limit of 2.
MaxOpenSettings ==
  { [ raw_max_open |-> None, respect |-> Unset ],
    [ raw_max_open |-> 1, respect |-> "1" ],
    [ raw_max_open |-> 2, respect |-> Unset ] }

\* The settings of a deployment other than the mode: the symbol list, the
\* position limit, RISK_GUARD_PAPER.  They are read at every start and stay
\* the same from one start to the next; BOT_MODE and LIVE_CONFIRM are what
\* the operator changes between two starts.
Settings ==
  { [ symbols |-> sy, raw_max_open |-> mo.raw_max_open, respect |-> mo.respect,
      guard_paper |-> gp ] :
      sy \in SymbolLists, mo \in MaxOpenSettings, gp \in { Unset } }

\* Mutant: the mode router without the LIVE_CONFIRM guard.
ModeRouterNoConfirm(bot_mode, dev_demo, live_confirm) ==
  LET mode0 == LowerStrip(IF Getenv(bot_mode, "paper") = "" THEN "paper" ELSE Getenv(bot_mode, "paper"))
      mode == IF mode0 \in { "demo", "data" } /\ ~EnvBool(dev_demo, "0") THEN "paper" ELSE mode0
  IN CASE mode = "demo" -> "demo"
       [] mode = "data" -> "data"
       [] mode = "paper" -> "paper"
       [] mode = "live" -> "live"
       [] OTHER -> "SystemExit"

\* main(): the mode router.  "SystemExit" is raise SystemExit(<message>),
\* which ends the process with exit status 1.
ModeRouter(bot_mode, dev_demo, live_confirm) ==
  LET mode0 == LowerStrip(IF Getenv(bot_mode, "paper") = "" THEN "paper" ELSE Getenv(bot_mode, "paper"))
      mode == IF mode0 \in { "demo", "data" } /\ ~EnvBool(dev_demo, "0") THEN "paper" ELSE mode0
  IN CASE mode = "demo" -> "demo"
       [] mode = "data" -> "data"
       [] mode = "paper" -> "paper"
       [] mode = "live" -> IF ~EnvBool(live_confirm, "0") THEN "SystemExit" ELSE "live"
       [] OTHER -> "SystemExit"

\* The max_open_positions of run_paper_or_live_loop's preamble.
MaxOpenPositions(live, raw_max_open, paper_respect, nsym) ==
  IF live THEN (IF raw_max_open = None THEN 1 ELSE raw_max_open)
  ELSE IF paper_respect /\ raw_max_open # None THEN raw_max_open
  ELSE LET v == IF raw_max_open # None THEN raw_max_open ELSE 0
       IN IF v <= 1 /\ nsym > 1 THEN Max2(1, nsym)
          ELSE IF v > 0 THEN Max2(1, v) ELSE Max2(1, nsym)

\* ------------------------------------------------------------------ time
\* Seconds per LTF bar; bar b closes at BarTime(b), and the k-th tick runs k
\* seconds into the bar that is open at that moment.
BarSec == 10

BarTime(b) == b * BarSec

Now == BarTime(bar) + tick

\* ------------------------------------------------------------ entry point
\* main(): read the environment, route the mode, and (paper / live) run the
\* loop's preamble.
Main(bot_mode, dev_demo, live_confirm, settings) ==
  /\ pc = "boot"
  /\ run.settings \in { NoSettings, settings }
  /\ LET route == ModeRouter(bot_mode, dev_demo, live_confirm)
         live == route = "live"
         mode == LowerStrip(IF Getenv(bot_mode, "paper") = "" THEN "paper"
                            ELSE Getenv(bot_mode, "paper"))
     IN /\ obs' = [ kind |-> "main", bot_mode |-> bot_mode,
                    live_confirm |-> IF mode = "live" THEN live_confirm ELSE NotRead,
                    route |-> route ]
        /\ IF route = "SystemExit"
           THEN /\ pc' = "exit" /\ exit_code' = 1
                /\ run' = [ NoRun EXCEPT !.settings = settings ]
           ELSE IF route \in { "demo", "data" }
           THEN /\ pc' = "other" /\ exit_code' = None
                /\ run' = [ NoRun EXCEPT !.settings = settings ]
           ELSE /\ pc' = "tick" /\ exit_code' = None
                /\ run' = [ live |-> live, settings |-> settings,
                            symbols |-> settings.symbols,
                            max_open_positions |->
                              MaxOpenPositions(live, settings.raw_max_open,
                                               EnvBool(settings.respect, "0"),
                                               Len(settings.symbols)),
                            use_risk_guard |-> live \/ EnvBool(settings.guard_paper, "0") ]
  /\ loc' = NoLoc
  /\ UNCHANGED << tick, bar, open_log, closed_log, decision_cycles, orders_log,
                  executions_log, snapshot_store, venue_calls, next_uuid >>
  /\ UNCHANGED << api_vars, lib_vars >>

\* The operator stops the process (or it has exited) and starts it again on
\* the same data directory.
Restart ==
  /\ pc \in { "tick", "exit", "other" }
  /\ tick < MaxTicks
  /\ pc' = "boot" /\ exit_code' = None /\ loc' = NoLoc
  /\ run' = [ NoRun EXCEPT !.settings = run.settings ]
  /\ obs' = [ kind |-> "restart" ]
  /\ UNCHANGED << tick, bar, open_log, closed_log, decision_cycles, orders_log,
                  executions_log, snapshot_store, venue_calls, next_uuid >>
  /\ UNCHANGED << api_vars, lib_vars >>

\* ------------------------------------------------------------- the loop
\* Last prices a ticker can report: none (0), at or beyond the lower bracket,
\* the entry price, at or beyond the upper bracket.
Prices == { 0, EntryPx - RR * SlDist, EntryPx, EntryPx + RR * SlDist }

OpenSymbols(trades) == { trades[i].symbol : i \in DOMAIN trades }

\* "while True:" up to the monitor's for loop: the cycle time and
\* list_open().  (What fetch_tickers_many reported for a symbol is drawn when
\* the monitor first reads it, and kept for the rest of the tick.)  With
\* nothing to monitor the step goes on to the open phase's list_open().
TickStart ==
  /\ pc = "tick"
  /\ tick < MaxTicks
  /\ tick' = tick + 1
  /\ \E b \in { bar, bar + 1 } :
       /\ b <= MaxBar
       /\ bar' = b
       /\ LET mon == ListOpen(open_log)
          IN /\ loc' = IF mon = << >>
                       THEN [ Sleeping(BarTime(b) + tick + 1) EXCEPT
                                !.open_trades = ListOpen(open_log), !.s_idx = 1 ]
                       ELSE [ Sleeping(BarTime(b) + tick + 1) EXCEPT
                                !.mon_list = mon, !.m_idx = 1 ]
             /\ pc' = IF mon = << >> THEN "open" ELSE "monitor"
  /\ obs' = [ kind |-> "tick_start" ]
  /\ UNCHANGED << run, exit_code, open_log, closed_log, decision_cycles, orders_log,
                  executions_log, snapshot_store, venue_calls, next_uuid >>
  /\ UNCHANGED << api_vars, lib_vars >>

\* SnapshotBuilderV1.build + ObserverUsecase.create_snapshot when `built`:
\* the id hashes (exchange, symbol, tf, close time of the last closed bar),
\* and an id already on file is reused.  Otherwise the loop's fallback,
\* _make_synthetic_snapshot: a fresh uuid4 id, stamped with the current time.
Snapshot(symbol, built, uuid, now) ==
  IF built
  THEN [ snapshot_id |-> << symbol, bar >>, snapshot_time_utc |-> BarTime(bar) ]
  ELSE [ snapshot_id |-> << "synthetic", uuid >>, snapshot_time_utc |-> now ]

\* _decision_id: sha1 of exchange|symbol|snapshot_id|snapshot_time_utc.
DecisionId(symbol, snap) == << symbol, snap.snapshot_id, snap.snapshot_time_utc >>

NoDecision == [ direction |-> "none" ]

\* Scores (percent) the hybrid policy's model can give: 100 is also what the
\* scorer returns when no model file is loaded.
ModelScores == { 100, 50 }

\* What "try: decision = policy.decide(snap)" leaves in `decision`: None
\* (the policy raised), or HybridPolicyV1.decide's result, the rule policy's
\* decision with the model score as confidence.  The synthetic snapshot's 1h
\* trend is "up": its decision is LONG.
Decisions(built) ==
  { NoDecision } \cup
  { PolicyDecide(d, sc) : d \in (IF built THEN Directions ELSE { "LONG" }), sc \in ModelScores }

\* _hybrid_conf_components: float(<ScoreOutput>) raises, so model_score is
\* None and final is the rule confidence.
HybridConfComponents(decide_ok) ==
  LET rule_conf == IF decide_ok THEN 100 ELSE 0
  IN [ rule_conf |-> rule_conf, model_score |-> None, final |-> rule_conf ]

\* HYBRID_CONF_MODE=mul (the default): the decision is rebuilt when the
\* chosen confidence differs from the decision's; the rebuild calls
\* TradeDecision(...) without decision_time_utc and raises TypeError.
RebuildRaises(decision, comps) ==
  /\ decision # NoDecision
  /\ LET chosen_conf == IF comps.final # None THEN comps.final ELSE decision.confidence
     IN chosen_conf # None /\ decision.confidence # chosen_conf

\* ex.fetch_account_equity_free(): CcxtUsdtmExchange defines no such method,
\* the call raises AttributeError.  (Mutant: the call returns.)
FetchAccountEquityFreeReturns == FALSE

FetchAccountEquityFreeRaises == TRUE

\* ex.place_entry_and_brackets(symbol=, direction=, qty=, entry_price=, ...):
\* the adapter's signature has no entry_price and requires leverage and
\* client_order_id, the call raises TypeError before any order is sent.
PlaceEntryAndBracketsRaises == TRUE

\* RiskEngineV1.build_plan: an accepted plan or a rejection.
BuildPlan(plan_ok) ==
  IF plan_ok
  THEN [ ok |-> TRUE, reason |-> "none", qty |-> 1, notional_usdt |-> EntryPx, leverage |-> 3 ]
  ELSE [ ok |-> FALSE, reason |-> "plan_rejected", qty |-> None, notional_usdt |-> None,
         leverage |-> None ]

\* The paper branch of the execution step: a simulated fill at the entry
\* price.  (FEE_RATE * notional is below the price unit: 0.)
PaperExecution(olog, venue, orders, ta, plan, decision, now) ==
  LET e == [ ExecutionStateDefault("OPEN") EXCEPT
               !.entry_time_utc = now,
               !.entry_fill_price = decision.entry_price,
               !.leverage = plan.leverage,
               !.qty = IF Truthy(plan.qty) THEN plan.qty ELSE None,
               !.notional = IF Truthy(plan.notional_usdt) THEN plan.notional_usdt ELSE None,
               !.client_order_id = ta.trade_id ]
  IN [ raised |-> FALSE, open |-> UpdateExecutionState(olog, ta.trade_id, e).open,
       venue |-> venue, orders |-> orders,
       writes |-> << "update_execution_state" >> ]

\* The live branch of the execution step: position mode, margin mode and
\* leverage (best effort), then the entry order with its brackets.
LiveExecution(live, olog, venue, orders, ta, plan, decision, now) ==
  LET v1 == venue \cup { [ call |-> c, live |-> live ] :
                           c \in { "set_oneway_mode", "set_isolated_margin", "set_leverage" } }
  IN IF PlaceEntryAndBracketsRaises
     THEN [ raised |-> TRUE, open |-> olog, venue |-> v1, orders |-> orders,
            writes |-> << >> ]
     ELSE LET e == [ ExecutionStateDefault("OPEN") EXCEPT
                       !.entry_time_utc = now,
                       !.entry_fill_price = decision.entry_price,
                       !.leverage = plan.leverage,
                       !.qty = plan.qty,
                       !.notional = plan.notional_usdt,
                       !.entry_order_id = ta.trade_id ]
          IN [ raised |-> FALSE, open |-> UpdateExecutionState(olog, ta.trade_id, e).open,
               venue |-> v1 \cup { [ call |-> "place_entry_and_brackets", live |-> live ] },
               orders |-> Append(orders, [ event_type |-> "order.place.entry_order_id",
                                           trade_id |-> ta.trade_id ]),
               writes |-> << "order.place.entry_order_id", "update_execution_state" >> ]

\* Mutant: the execution step takes the live branch whatever the mode.
ExecuteOpenAlwaysLive(live, olog, venue, orders, ta, plan, decision, now) ==
  LiveExecution(live, olog, venue, orders, ta, plan, decision, now)

\* "if live: ... else: ..." of the execution step.
ExecuteOpen(live, olog, venue, orders, ta, plan, decision, now) ==
  IF live THEN LiveExecution(live, olog, venue, orders, ta, plan, decision, now)
  ELSE PaperExecution(olog, venue, orders, ta, plan, decision, now)

\* Mutant: the plan event is appended after the execution step.
OpenWritesPlanLast(x_writes) == << "save_open" >> \o x_writes \o << "trade.open.plan" >>

\* The writes of an opening, in program order: open_trade (save_open), the
\* trade.open.plan event, then what the execution step wrote.
OpenWrites(x_writes) == << "save_open", "trade.open.plan" >> \o x_writes

\* One iteration of "for symbol in symbols": what it leaves in the stores,
\* and whether it raised (an exception leaves the for loop and the tick).
SymbolIteration(symbol, built, decision, guard_ok, plan_ok) ==
  LET snap == Snapshot(symbol, built, next_uuid, Now)
      u1 == IF built THEN next_uuid ELSE next_uuid + 1
      comps == HybridConfComponents(decision # NoDecision)
      rec == [ decision_id |-> DecisionId(symbol, snap), snapshot_id |-> snap.snapshot_id,
               symbol |-> symbol, cycle_time_utc |-> loc.cycle_time_utc,
               risk_blocked |-> FALSE, blocked_reason |-> "none",
               is_opened |-> FALSE, trade_id |-> None ]
      base == [ raised |-> FALSE, outcome |-> "blocked", open |-> open_log,
                cycles |-> decision_cycles, orders |-> orders_log, venue |-> venue_calls,
                snaps |-> snapshot_store \cup { snap.snapshot_id }, uuid |-> u1,
                trade_id |-> None, writes |-> << >> ]
      Blocked(reason) ==
        [ base EXCEPT !.cycles = Append(decision_cycles,
                          [ rec EXCEPT !.risk_blocked = TRUE, !.blocked_reason = reason ]) ]
      Raised == [ base EXCEPT !.raised = TRUE, !.outcome = "raised" ]
  IN IF RebuildRaises(decision, comps) THEN Raised
     ELSE IF Len(loc.open_trades) >= run.max_open_positions THEN Blocked("max_open_positions")
     ELSE IF symbol \in OpenSymbols(loc.open_trades) THEN Blocked("already_open_symbol")
     ELSE IF decision = NoDecision THEN Blocked("decision_error")
     ELSE IF run.live /\ FetchAccountEquityFreeRaises THEN Raised
     ELSE IF run.use_risk_guard /\ ~guard_ok THEN Blocked("risk_guard_block")
     ELSE LET plan == BuildPlan(plan_ok)
          IN IF ~plan.ok THEN Blocked(plan.reason)
             ELSE LET ta == CreateOpen(u1, symbol, snap.snapshot_id, snap.snapshot_time_utc, decision)
                      o1 == SaveOpen(open_log, ta)
                      ord1 == Append(orders_log, [ event_type |-> "trade.open.plan", trade_id |-> u1 ])
                      x == ExecuteOpen(run.live, o1, venue_calls, ord1, ta, plan, decision, Now)
                      opened == [ base EXCEPT !.open = x.open, !.orders = x.orders,
                                              !.venue = x.venue, !.uuid = u1 + 1,
                                              !.trade_id = u1,
                                              !.writes = OpenWrites(x.writes) ]
                  IN IF x.raised
                     THEN [ opened EXCEPT !.raised = TRUE, !.outcome = "raised" ]
                     ELSE [ opened EXCEPT
                              !.outcome = "opened",
                              !.cycles = Append(decision_cycles,
                                           [ rec EXCEPT !.is_opened = TRUE, !.trade_id = u1 ]) ]

\* One iteration of the open phase's for loop; after the last symbol (or an
\* exception) the loop sleeps until the next cycle.
ProcessSymbol ==
  /\ pc = "open"
  /\ loc.s_idx <= Len(run.symbols)
  /\ \E built \in BOOLEAN, plan_ok \in BOOLEAN,
        guard_ok \in (IF run.use_risk_guard THEN BOOLEAN ELSE { TRUE }) :
       \E decision \in Decisions(built) :
       \E r \in { SymbolIteration(run.symbols[loc.s_idx], built, decision, guard_ok, plan_ok) } :
          /\ r.uuid <= MaxTrades + 1
          /\ open_log' = r.open
          /\ decision_cycles' = r.cycles
          /\ orders_log' = r.orders
          /\ venue_calls' = r.venue
          /\ snapshot_store' = r.snaps
          /\ next_uuid' = r.uuid
          /\ obs' = [ kind |-> "symbol", symbol |-> run.symbols[loc.s_idx], outcome |-> r.outcome,
                      open_before |-> Len(ListOpen(open_log)),
                      trade_id |-> r.trade_id, writes |-> r.writes,
                      last_symbol |-> loc.s_idx = Len(run.symbols) ]
          /\ IF r.raised \/ loc.s_idx = Len(run.symbols)
             THEN /\ pc' = "tick"
                  /\ loc' = Sleeping(loc.cycle_time_utc)
             ELSE /\ pc' = "open"
                  /\ loc' = [ loc EXCEPT !.s_idx = @ + 1 ]
  /\ UNCHANGED << run, exit_code, tick, bar, closed_log, executions_log >>
  /\ UNCHANGED << api_vars, lib_vars >>

\* What ex.fetch_ohlcv returns for the window after the entry, when it
\* returns bars.
VenueBars == << [ high |-> EntryPx + SlDist, low |-> EntryPx - SlDist ] >>

\* A paper exit filled at the entry price.
PaperExitAtEntry(decision, hit_tp) == decision.entry_price

\* The fill price of a paper exit: the level that was touched.
PaperExitPrice(decision, hit_tp) ==
  IF hit_tp THEN decision.tp_price ELSE decision.sl_price

\* What the venue's position query does for a symbol: it raises, returns no
\* position row, or returns the row of a flat or of an open position.
PositionQueries == { "raise", "empty", "flat", "open" }

\* CcxtUsdtmExchange.fetch_position_qty: the signed size of the position;
\* 0.0 when the query raises or returns nothing.
FetchPositionQty(position) ==
  IF position = "open" THEN 1 ELSE 0

\* One iteration of the monitor's "for t in list(open_trades)".
\*   flat       abs(ex.fetch_position_qty(sym)) < 1e-12 (live)
\*   filled_tp, filled_sl   fetch_order reports the bracket as filled (live)
\*   ohlcv      what ex.fetch_ohlcv does (live): "bars", "empty", "raise"
\*   built      the exit snapshot is built, or is the synthetic fallback
MonitorIteration(t, last_price, flat, filled_tp, filled_sl, ohlcv, built) ==
  LET long == t.decision.direction = "LONG"
      priced == last_price > 0
      hit_tp == priced /\ (IF long THEN last_price >= t.decision.tp_price
                           ELSE last_price <= t.decision.tp_price)
      hit_sl == priced /\ (IF long THEN last_price <= t.decision.sl_price
                           ELSE last_price >= t.decision.sl_price)
      es == t.execution_state
      snap == Snapshot(t.symbol, built, next_uuid, Now)
      u1 == IF built THEN next_uuid ELSE next_uuid + 1
      idle == [ raised |-> FALSE, closed |-> FALSE, hit_tp |-> hit_tp, hit_sl |-> hit_sl,
                open |-> open_log, closed_log |-> closed_log, executions |-> executions_log,
                venue |-> venue_calls, snaps |-> snapshot_store, uuid |-> next_uuid ]
      entry_time == IF Truthy(es.entry_time_utc) THEN es.entry_time_utc
                    ELSE t.entry_snapshot_time_utc
      entry_fill == IF Truthy(es.entry_fill_price) THEN es.entry_fill_price
                    ELSE t.decision.entry_price
      Resolve(e, bars, venue) ==
        LET r == ResolveTrade(open_log, closed_log, t.trade_id, e, bars,
                              snap.snapshot_id, snap.snapshot_time_utc)
            saved == [ idle EXCEPT !.venue = venue,
                                   !.snaps = snapshot_store \cup { snap.snapshot_id },
                                   !.uuid = u1 ]
        IN IF r.result # "ok" THEN [ saved EXCEPT !.raised = TRUE ]
           ELSE [ saved EXCEPT
                    !.closed = TRUE,
                    !.open = r.files.open,
                    !.closed_log = r.files.closed,
                    !.executions = Append(executions_log,
                                     [ event_type |-> "trade.close", trade_id |-> t.trade_id,
                                       exit_type |-> e.exit_type ]) ]
  IN IF ~priced THEN idle
     ELSE IF run.live
     THEN IF ~flat THEN idle
          ELSE LET tp_id == es.tp_order_id
                   sl_id == es.sl_order_id
                   exit_type == IF Truthy(tp_id) /\ filled_tp THEN "TP"
                                ELSE IF Truthy(sl_id) /\ filled_sl THEN "SL"
                                ELSE "UNKNOWN"
                   v1 == venue_calls \cup
                           (IF Truthy(tp_id) \/ Truthy(sl_id)
                            THEN { [ call |-> "cancel_order", live |-> run.live ] } ELSE {})
                   e == [ ExecutionStateDefault("CLOSED") EXCEPT
                            !.entry_time_utc = entry_time,
                            !.entry_fill_price = entry_fill,
                            !.exit_time_utc = Now,
                            !.exit_fill_price = last_price,
                            !.exit_type = exit_type,
                            !.fees_total = es.fees_total,
                            !.leverage = es.leverage,
                            !.qty = es.qty,
                            !.notional = es.notional,
                            !.entry_order_id = es.entry_order_id,
                            !.tp_order_id = es.tp_order_id,
                            !.sl_order_id = es.sl_order_id,
                            !.client_order_id = es.client_order_id ]
               IN IF ohlcv = "raise"
                  THEN [ idle EXCEPT !.raised = TRUE, !.venue = v1,
                                     !.snaps = snapshot_store \cup { snap.snapshot_id },
                                     !.uuid = u1 ]
                  ELSE Resolve(e, IF ohlcv = "bars" THEN VenueBars
                                  ELSE SyntheticBars(t.decision, last_price), v1)
     ELSE IF hit_tp \/ hit_sl
     THEN LET exit_price == PaperExitPrice(t.decision, hit_tp)
              e == [ ExecutionStateDefault("CLOSED") EXCEPT
                       !.entry_time_utc = entry_time,
                       !.entry_fill_price = entry_fill,
                       !.exit_time_utc = Now,
                       !.exit_fill_price = exit_price,
                       !.exit_type = IF hit_tp THEN "TP" ELSE "SL",
                       !.leverage = es.leverage,
                       !.qty = IF Truthy(es.qty) THEN es.qty ELSE None,
                       !.notional = IF Truthy(es.notional) THEN es.notional ELSE None,
                       !.client_order_id = es.client_order_id ]
          IN Resolve(e, SyntheticBars(t.decision, exit_price), venue_calls)
     ELSE idle

\* One iteration of the monitor phase; after the last trade the step goes on
\* to the open phase's list_open(), an exception ends the tick.
MonitorTrade ==
  /\ pc = "monitor"
  /\ loc.m_idx <= Len(loc.mon_list)
  /\ \E t \in { loc.mon_list[loc.m_idx] } :
     \E last_price \in (IF t.symbol \in DOMAIN loc.tickers
                         THEN { loc.tickers[t.symbol] } ELSE Prices),
        position \in (IF run.live THEN PositionQueries ELSE { "open" }),
        filled_tp \in (IF run.live /\ Truthy(t.execution_state.tp_order_id)
                        THEN BOOLEAN ELSE { FALSE }),
        filled_sl \in (IF run.live /\ Truthy(t.execution_state.sl_order_id)
                        THEN BOOLEAN ELSE { FALSE }),
        ohlcv \in (IF run.live THEN { "bars", "empty", "raise" } ELSE { "empty" }),
        built \in BOOLEAN :
       \E flat \in { run.live /\ FetchPositionQty(position) = 0 } :
       \E r \in { MonitorIteration(t, last_price, flat, filled_tp, filled_sl, ohlcv, built) } :
          /\ r.uuid <= MaxTrades + 1
          /\ open_log' = r.open
          /\ closed_log' = r.closed_log
          /\ executions_log' = r.executions
          /\ venue_calls' = r.venue
          /\ snapshot_store' = r.snaps
          /\ next_uuid' = r.uuid
          /\ obs' = [ kind |-> "monitor", trade_id |-> t.trade_id, live |-> run.live,
                      hit_tp |-> r.hit_tp, hit_sl |-> r.hit_sl,
                      flat |-> run.live /\ flat,
                      position |-> IF run.live THEN position ELSE "none",
                      sl_order_id |-> t.execution_state.sl_order_id,
                      closed |-> r.closed, raised |-> r.raised,
                      last_price |-> last_price, trade |-> t ]
          /\ IF r.raised
             THEN /\ pc' = "tick"
                  /\ loc' = Sleeping(loc.cycle_time_utc)
             ELSE IF loc.m_idx = Len(loc.mon_list)
             THEN /\ pc' = "open"
                  /\ loc' = [ Sleeping(loc.cycle_time_utc) EXCEPT
                               !.open_trades = ListOpen(r.open), !.s_idx = 1 ]
             ELSE /\ pc' = "monitor"
                  /\ loc' = [ loc EXCEPT !.m_idx = @ + 1,
                                         !.tickers = (t.symbol :> last_price) @@ @ ]
  /\ UNCHANGED << run, exit_code, tick, bar, decision_cycles, orders_log >>
  /\ UNCHANGED << api_vars, lib_vars >>

Init ==
  /\ InitStores
  /\ InitApi
  /\ InitLibIdle
  /\ pc = "boot"
  /\ run = NoRun
  /\ exit_code = None
  /\ tick = 0
  /\ bar = 1
  /\ loc = NoLoc
  /\ obs = NoObs

Next ==
  \/ \E bot_mode \in BotModeTokens, dev_demo \in { Unset, "1" }, live_confirm \in BoolTokens,
        settings \in Settings :
       Main(bot_mode, dev_demo, live_confirm, settings)
  \/ TickStart
  \/ MonitorTrade
  \/ ProcessSymbol
  \/ Restart

Spec == Init /\ [][Next]_vars

\* ------------------------------------------------------ crash and restart
\* The process dies inside TradeRepoCSV.update_closed, between the append to
\* the closed file and the rewrite of the open file, in a monitor iteration
\* that closes a trade: what the iteration wrote before resolve_trade (the
\* cancelled brackets, the exit snapshot) and the closed row are on disk, the
\* open file is as it was, and the trade.close event is not written.
MonitorCrash ==
  /\ pc = "monitor"
  /\ loc.m_idx <= Len(loc.mon_list)
  /\ \E t \in { loc.mon_list[loc.m_idx] } :
     \E last_price \in (IF t.symbol \in DOMAIN loc.tickers
                         THEN { loc.tickers[t.symbol] } ELSE Prices),
        position \in (IF run.live THEN PositionQueries ELSE { "open" }),
        ohlcv \in (IF run.live THEN { "bars", "empty" } ELSE { "empty" }),
        built \in BOOLEAN :
       \E flat \in { run.live /\ FetchPositionQty(position) = 0 } :
       \E r \in { MonitorIteration(t, last_price, flat, FALSE, FALSE, ohlcv, built) } :
          /\ r.closed
          /\ r.uuid <= MaxTrades + 1
          /\ closed_log' = r.closed_log
          /\ venue_calls' = r.venue
          /\ snapshot_store' = r.snaps
          /\ next_uuid' = r.uuid
          /\ obs' = [ kind |-> "crash", trade_id |-> t.trade_id ]
  /\ pc' = "boot" /\ exit_code' = None /\ loc' = NoLoc
  /\ run' = [ NoRun EXCEPT !.settings = run.settings ]
  /\ UNCHANGED << tick, bar, open_log, decision_cycles, orders_log, executions_log >>
  /\ UNCHANGED << api_vars, lib_vars >>

\* The settings of the deployment: BOT_SYMBOLS=A,B and the default position
\* limit.
CrashSettings ==
  [ symbols |-> << "A", "B" >>, raw_max_open |-> None, respect |-> Unset,
    guard_paper |-> Unset ]

\* The data directory of an earlier paper run of the deployment that opened
\* one trade on A and was stopped.
InitCrash ==
  /\ InitApi
  /\ InitLibIdle
  /\ LET decision == PolicyDecide("LONG", 100)
         snapshot_id == << "A", 1 >>
         ta == CreateOpen(1, "A", snapshot_id, BarTime(1), decision)
         x == PaperExecution(SaveOpen(<< >>, ta), {}, << >>, ta, BuildPlan(TRUE), decision,
                             BarTime(1) + 1)
     IN /\ open_log = x.open
        /\ closed_log = << >>
        /\ decision_cycles =
             << [ decision_id |-> << "A", snapshot_id, BarTime(1) >>,
                  snapshot_id |-> snapshot_id, symbol |-> "A",
                  cycle_time_utc |-> BarTime(1) + 1,
                  risk_blocked |-> FALSE, blocked_reason |-> "none",
                  is_opened |-> TRUE, trade_id |-> 1 ] >>
        /\ orders_log = << [ event_type |-> "trade.open.plan", trade_id |-> 1 ] >>
        /\ executions_log = << >>
        /\ snapshot_store = { snapshot_id }
        /\ venue_calls = {}
        /\ next_uuid = 2
  /\ pc = "boot"
  /\ run = [ NoRun EXCEPT !.settings = CrashSettings ]
  /\ exit_code = None
  /\ tick = 0
  /\ bar = 1
  /\ loc = NoLoc
  /\ obs = NoObs

NextCrash ==
  \/ Next
  \/ MonitorCrash

SpecCrash == InitCrash /\ [][NextCrash]_vars

\* ---------------------------------------------------- snapshot pipeline
\* Bounds of the snapshot specification.
MaxSnaps == 2

\* A moment at which a 5m, a 15m, a 1h and a 4h bar open together.
Epoch == 14400

\* Seconds after Epoch at which the pipeline is run.
ClockOffsets == { 0, 1, 300 }

ExchangeId == "binance"

\* _tf_to_sec
TfToSec(tf) ==
  CASE tf = "5m" -> 5 * 60
    [] tf = "15m" -> 15 * 60
    [] tf = "1h" -> 1 * 60 * 60
    [] tf = "4h" -> 4 * 60 * 60
    [] OTHER -> 60

\* SnapshotBuilderConfig: ltf_tf and htf_tfs (the hard lock of __post_init__
\* admits no other ltf_tf, and requires these three among htf_tfs).
LtfTf == "5m"

HtfTfs == { "15m", "1h", "4h" }

\* What exchange.fetch_ohlcv does for one timeframe: it raises, or returns n
\* bars, the last of which is the bar still forming (open) or the last
\* closed bar.  A venue with a short history returns a single bar.
OhlcvResponses ==
  { [ raises |-> TRUE, n |-> 0, open |-> FALSE ],
    [ raises |-> FALSE, n |-> 0, open |-> FALSE ],
    [ raises |-> FALSE, n |-> 1, open |-> TRUE ],
    [ raises |-> FALSE, n |-> 1, open |-> FALSE ],
    [ raises |-> FALSE, n |-> 2, open |-> TRUE ] }

\* The open times (ms) of the bars of a response at time now (s).
FetchOhlcv(tf, now, resp) ==
  LET tf_sec == TfToSec(tf)
      forming == (now \div tf_sec) * tf_sec
      last_open == IF resp.open THEN forming ELSE forming - tf_sec
  IN [ i \in 1 .. resp.n |-> (last_open - (resp.n - i) * tf_sec) * 1000 ]

\* "if now_ms < (last_open_ms + tf_ms) and len(ohlcv) >= 2: ohlcv = ohlcv[:-1]"
DropFormingBar(ohlcv, now_ms, tf_ms) ==
  IF ohlcv # << >> /\ now_ms < ohlcv[Len(ohlcv)] + tf_ms /\ Len(ohlcv) >= 2
  THEN SubSeq(ohlcv, 1, Len(ohlcv) - 1)
  ELSE ohlcv

\* hashlib.sha1 of "ex|symbol|tf|close|v3": the key stands for its digest.
Sha1Id(ex_id, symbol, tf, close_time_utc) == << ex_id, symbol, tf, close_time_utc, "v3" >>

\* str(uuid.uuid4()): the n-th fresh id.
Uuid4Id(n) == << "uuid4", "", "", n, "" >>

NoBars == [ tf \in {} |-> 0 ]

\* SnapshotBuilderV1.build(symbol) at time now: whether it raises, the dict
\* it returns, and for each timeframe that contributed the open time (s) of
\* the most recent bar used.
SnapshotBuilderBuild(symbol, now, uuid, ltf_resp, htf_resp) ==
  LET now_ms == now * 1000
      tf_ms == TfToSec(LtfTf) * 1000
      ltf_ohlcv == DropFormingBar(FetchOhlcv(LtfTf, now, ltf_resp), now_ms, tf_ms)
      Htf(tf) == IF htf_resp[tf].raises THEN << >>
                 ELSE DropFormingBar(FetchOhlcv(tf, now, htf_resp[tf]), now_ms, TfToSec(tf) * 1000)
      present == { tf \in HtfTfs : Htf(tf) # << >> }
      ltf_close_time_utc == (ltf_ohlcv[Len(ltf_ohlcv)] + tf_ms) \div 1000
  IN IF ltf_resp.raises
     THEN [ raises |-> TRUE ]
     ELSE IF ltf_ohlcv = << >>
     THEN [ raises |-> FALSE,
            raw |-> [ schema_version |-> "v3", snapshot_id |-> Uuid4Id(uuid),
                      snapshot_time_utc |-> now, observer_time_utc |-> now,
                      symbol |-> symbol,
                      ltf |-> [ tf |-> LtfTf, timestamp |-> now ],
                      htf |-> NoBars,
                      context |-> [ exchange |-> ExchangeId ] ],
            used |-> NoBars, uuid |-> uuid + 1 ]
     ELSE [ raises |-> FALSE,
            raw |-> [ schema_version |-> "v3",
                      snapshot_id |-> Sha1Id(ExchangeId, symbol, LtfTf, ltf_close_time_utc),
                      snapshot_time_utc |-> ltf_close_time_utc, observer_time_utc |-> now,
                      symbol |-> symbol,
                      ltf |-> [ tf |-> LtfTf, timestamp |-> ltf_close_time_utc ],
                      htf |-> [ tf \in present |-> [ trend |-> "flat" ] ],
                      context |-> [ exchange |-> ExchangeId ] ],
            used |-> [ tf \in present \cup { LtfTf } |->
                         IF tf = LtfTf THEN ltf_ohlcv[Len(ltf_ohlcv)] \div 1000
                         ELSE Htf(tf)[Len(Htf(tf))] \div 1000 ],
            uuid |-> uuid ]

\* _make_synthetic_snapshot(symbol, ts, 0.0)
MakeSyntheticSnapshot(symbol, ts, uuid) ==
  [ schema_version |-> "v3", snapshot_id |-> Uuid4Id(uuid),
    snapshot_time_utc |-> ts, observer_time_utc |-> ts + 2,
    symbol |-> symbol,
    ltf |-> [ tf |-> "5m", timestamp |-> ts ],
    htf |-> [ tf \in { "15m", "1h", "4h" } |-> [ trend |-> "up" ] ],
    context |-> [ exchange |-> "synthetic" ] ]

\* SnapshotV3._forbidden_keys
ForbiddenKeys ==
  { "decision", "execution_state", "reward_state", "risk_unit", "pnl", "pnl_raw",
    "pnl_r", "exit_price", "exit_time_utc", "tp_price", "sl_price", "rr" }

NoSnap == [ snapshot_id |-> Uuid4Id(0) ]

\* SnapshotV3.from_dict(data): the snapshot, or the validation error raised.
\* (Every dict handed in carries a snapshot_id, symbol and context.)
FromDict(data) ==
  LET Error(msg) == [ ok |-> FALSE, error |-> msg, snap |-> NoSnap ]
  IN IF ForbiddenKeys \cap DOMAIN data # {} THEN Error("forbidden_fields")
     ELSE IF "schema_version" \notin DOMAIN data THEN Error("schema_version")
     ELSE IF data.schema_version # "v3" THEN Error("schema_version")
     ELSE IF { "snapshot_time_utc", "observer_time_utc" } \ DOMAIN data # {}
     THEN Error("time_required")
     ELSE IF data.snapshot_time_utc > data.observer_time_utc THEN Error("time_order")
     ELSE IF "ltf" \notin DOMAIN data THEN Error("ltf")
     ELSE [ ok |-> TRUE, error |-> "none",
            snap |-> [ schema_version |-> "v3", snapshot_id |-> data.snapshot_id,
                       snapshot_time_utc |-> data.snapshot_time_utc,
                       symbol |-> data.symbol,
                       observer_time_utc |-> data.observer_time_utc,
                       ltf |-> data.ltf,
                       htf |-> IF "htf" \in DOMAIN data THEN data.htf ELSE NoBars,
                       context |-> data.context ] ]

StoredIds(files) == { f.snapshot_id : f \in files }

\* SnapshotRepoFSJson.get
RepoGet(files, snapshot_id) ==
  IF snapshot_id \in StoredIds(files)
  THEN CHOOSE f \in files : f.snapshot_id = snapshot_id
  ELSE NoSnap

\* Mutant: save without the existence test, the file is overwritten.
RepoSaveOverwrite(files, snap) ==
  [ ok |-> TRUE, files |-> { f \in files : f.snapshot_id # snap.snapshot_id } \cup { snap } ]

\* SnapshotRepoFSJson.save: raises RuntimeError("Snapshot immutable and
\* exists") when the file of the id exists.
RepoSave(files, snap) ==
  IF snap.snapshot_id \in StoredIds(files)
  THEN [ ok |-> FALSE, files |-> files ]
  ELSE [ ok |-> TRUE, files |-> files \cup { snap } ]

\* ObserverUsecase.create_snapshot(raw_snapshot): what it returns or that it
\* raises, and the files after it.
CreateSnapshot(files, raw_snapshot) ==
  LET fd == FromDict(raw_snapshot)
      sv == RepoSave(files, fd.snap)
  IN IF ~fd.ok
     THEN [ raises |-> TRUE, error |-> fd.error, returned |-> NoSnap, files |-> files ]
     ELSE IF sv.ok
     THEN [ raises |-> FALSE, error |-> "none", returned |-> fd.snap, files |-> sv.files ]
     ELSE LET existing == RepoGet(sv.files, fd.snap.snapshot_id)
          IN IF existing # NoSnap
             THEN [ raises |-> FALSE, error |-> "none", returned |-> existing, files |-> sv.files ]
             ELSE [ raises |-> TRUE, error |-> "immutable", returned |-> NoSnap, files |-> sv.files ]

\* "try: snap = observer_uc.create_snapshot(builder.build(symbol))
\*  except Exception: snap = observer_uc.create_snapshot(_make_synthetic_snapshot(...))"
SnapshotStep(files, symbol, now, uuid, ltf_resp, htf_resp) ==
  LET b == SnapshotBuilderBuild(symbol, now, uuid, ltf_resp, htf_resp)
      c == CreateSnapshot(files, b.raw)
      u1 == IF b.raises THEN uuid ELSE b.uuid
      f == CreateSnapshot(IF b.raises THEN files ELSE c.files,
                          MakeSyntheticSnapshot(symbol, now, u1))
  IN IF ~b.raises /\ ~c.raises
     THEN [ fallback |-> FALSE, snap |-> c.returned, files |-> c.files, uuid |-> u1,
            used |-> b.used, raw_id |-> b.raw.snapshot_id ]
     ELSE [ fallback |-> TRUE, snap |-> f.returned, files |-> f.files, uuid |-> u1 + 1,
            used |-> NoBars, raw_id |-> MakeSyntheticSnapshot(symbol, now, u1).snapshot_id ]

\* The usual answer of the venue: a history that ends with the forming bar.
FullHistory == [ raises |-> FALSE, n |-> 2, open |-> TRUE ]

\* The answers for the three HTF fetches of one build: the usual answer,
\* except that at most one timeframe raises or has a single, forming bar.
HtfResponseMaps ==
  { [ tf \in HtfTfs |-> IF tf = odd THEN r ELSE FullHistory ] :
      odd \in HtfTfs,
      r \in { FullHistory, [ raises |-> TRUE, n |-> 0, open |-> FALSE ],
              [ raises |-> FALSE, n |-> 1, open |-> TRUE ] } }

\* Keys a caller may add to a snapshot dict.
ExtraKeys ==
  { "note", "decision", "reward_state", "pnl", "pnl_usdt", "exit_price", "exit_type", "rr" }

\* Dicts handed to create_snapshot by a caller: the dict of a build on a full
\* history, as it is or with one more key, with another schema version, or
\* stamped after its observer time.
RawInputs(symbol, now) ==
  LET base == SnapshotBuilderBuild(symbol, now, 0, FullHistory,
                                   [ tf \in HtfTfs |-> FullHistory ]).raw
  IN { base,
       [ base EXCEPT !.schema_version = "v2" ],
       [ base EXCEPT !.snapshot_time_utc = base.observer_time_utc + 1 ] }
     \cup { (k :> "x") @@ base : k \in ExtraKeys }

\* The snapshot step of the loop for one symbol.
SnapStep(symbol, ltf_resp, htf_resp) ==
  /\ pc = "snap"
  /\ \E r \in { SnapshotStep(snap_files, symbol, clock, next_uuid, ltf_resp, htf_resp) } :
        /\ Cardinality(r.files) <= MaxSnaps
        /\ snap_files' = r.files
        /\ next_uuid' = r.uuid
        /\ snap_last' = [ op |-> "step", now |-> clock, raw_id |-> r.raw_id,
                          raw_keys |-> {}, existed |-> r.raw_id \in StoredIds(snap_files),
                          stored_before |-> RepoGet(snap_files, r.raw_id),
                          raised |-> FALSE, returned |-> r.snap,
                          fallback |-> r.fallback, used |-> r.used ]
  /\ UNCHANGED << clock, open_log, closed_log >>
  /\ UNCHANGED << loop_vars, api_vars, calc_vars >>

\* A call of ObserverUsecase.create_snapshot(raw).
SnapCreate(raw) ==
  /\ pc = "snap"
  /\ \E r \in { CreateSnapshot(snap_files, raw) } :
        /\ Cardinality(r.files) <= MaxSnaps
        /\ snap_files' = r.files
        /\ snap_last' = [ op |-> "create", now |-> clock, raw_id |-> raw.snapshot_id,
                          raw_keys |-> DOMAIN raw,
                          existed |-> raw.snapshot_id \in StoredIds(snap_files),
                          stored_before |-> RepoGet(snap_files, raw.snapshot_id),
                          raised |-> r.raises, returned |-> r.returned,
                          fallback |-> FALSE, used |-> NoBars ]
  /\ UNCHANGED << clock, next_uuid, open_log, closed_log >>
  /\ UNCHANGED << loop_vars, api_vars, calc_vars >>

\* Time passes.
SnapTick ==
  /\ pc = "snap"
  /\ \E d \in ClockOffsets : Epoch + d > clock /\ clock' = Epoch + d
  /\ snap_last' = NoSnapLast
  /\ UNCHANGED << snap_files, next_uuid, open_log, closed_log >>
  /\ UNCHANGED << loop_vars, api_vars, calc_vars >>

InitSnap ==
  /\ InitStores
  /\ InitApi
  /\ pc = "snap"
  /\ run = NoRun
  /\ exit_code = None
  /\ tick = 0
  /\ bar = 1
  /\ loc = NoLoc
  /\ obs = NoObs
  /\ clock = Epoch
  /\ snap_files = {}
  /\ snap_last = NoSnapLast
  /\ InitCalcIdle

NextSnap ==
  \/ \E symbol \in Symbols, ltf_resp \in OhlcvResponses :
       \E htf_resp \in (IF ltf_resp = FullHistory THEN HtfResponseMaps
                         ELSE { [ tf \in HtfTfs |-> FullHistory ] }) :
         SnapStep(symbol, ltf_resp, htf_resp)
  \/ \E symbol \in Symbols : \E raw \in RawInputs(symbol, clock) : SnapCreate(raw)
  \/ SnapTick

SpecSnap == InitSnap /\ [][NextSnap]_vars

\* ------------------------------------------------------------- risk engine
\* Amounts of the risk engine (USDT, quantities, percentages) are exact
\* rationals [n, d] in lowest terms with d > 0; an absent (None) amount is
\* NoneR.  Leverage and prices are integers.

RECURSIVE Gcd(_, _)
Gcd(a, b) == IF b = 0 THEN a ELSE Gcd(b, a % b)

Abs(x) == IF x < 0 THEN -x ELSE x

Rat(n, d) ==
  LET s == IF d < 0 THEN -1 ELSE 1
      g == Gcd(Abs(n), Abs(d))
  IN [ n |-> (s * n) \div g, d |-> (s * d) \div g ]

RInt(k) == [ n |-> k, d |-> 1 ]

NoneR == [ n |-> 0, d |-> 0 ]

IsSetR(x) == x.d # 0

Positive(x) == x.n > 0

RMul(a, b) == Rat(a.n * b.n, a.d * b.d)

RDiv(a, b) == Rat(a.n * b.d, a.d * b.n)

RLt(a, b) == a.n * b.d < b.n * a.d

RLe(a, b) == a.n * b.d <= b.n * a.d

RGt(a, b) == RLt(b, a)

RMax(a, b) == IF RLt(a, b) THEN b ELSE a

RMin(a, b) == IF RLt(b, a) THEN b ELSE a

\* math.floor and math.ceil
RFloor(a) == a.n \div a.d

RCeil(a) == -((-a.n) \div a.d)

\* _floor_to_step
FloorToStep(x, step) ==
  IF ~IsSetR(step) \/ step.n <= 0 THEN x
  ELSE RMul(RInt(RFloor(RDiv(x, step))), step)

\* _ceil_to_step
CeilToStep(x, step) ==
  IF ~IsSetR(step) \/ step.n <= 0 THEN x
  ELSE RMul(RInt(RCeil(RDiv(x, step))), step)

\* RiskPlan(ok=False, reason=...).  The two formatted reasons carry the
\* name of the threshold instead of its value.
RiskPlanRejected(reason) ==
  [ ok |-> FALSE, reason |-> reason, qty |-> NoneR, notional_usdt |-> NoneR,
    leverage |-> None, risk_usdt |-> NoneR, risk_pct |-> NoneR ]

\* The final risk and the accepted plan.
RiskPlanOk(qty, notional, lev, stop_dist, equity) ==
  LET risk_usdt == RMul(qty, stop_dist)
  IN [ ok |-> TRUE, reason |-> "ok", qty |-> qty, notional_usdt |-> notional,
       leverage |-> lev, risk_usdt |-> risk_usdt,
       risk_pct |-> RMul(RDiv(risk_usdt, equity), RInt(100)) ]

\* The risk budget of a trade.
RiskBudget(cfg, account) ==
  IF IsSetR(cfg.risk_per_trade_usdt) /\ Positive(cfg.risk_per_trade_usdt)
  THEN cfg.risk_per_trade_usdt
  ELSE RMul(account.equity_usdt, RDiv(cfg.risk_per_trade_pct, RInt(100)))

StopDist(decision) == RInt(Abs(decision.entry_price - decision.sl_price))

\* The effective minimum notional: 5.0 when the venue gives none.
MinNotional(constraints) ==
  LET m == IF IsSetR(constraints.min_notional_usdt)
           THEN constraints.min_notional_usdt ELSE RInt(0)
  IN IF Positive(m) THEN m ELSE RInt(5)

\* The min_qty bump that follows every sizing step.
BumpMinQty(qty, constraints) ==
  IF IsSetR(constraints.min_qty)
  THEN CeilToStep(RMax(constraints.min_qty, qty), constraints.qty_step)
  ELSE qty

\* The margin a position may use.
MarginLimit(cfg, account) ==
  LET base == RMax(RInt(0), RMul(cfg.margin_utilization, account.free_usdt))
  IN IF IsSetR(cfg.max_exposure_pct_per_symbol) /\ Positive(cfg.max_exposure_pct_per_symbol)
     THEN RMin(base, RMul(account.equity_usdt,
                          RDiv(cfg.max_exposure_pct_per_symbol, RInt(100))))
     ELSE base

\* The starting leverage without the clamp to [1, max_leverage].
DefaultLeverageUnclamped(cfg) == cfg.default_leverage

\* The starting leverage.
InitialLeverage(cfg) == Max2(1, Min2(cfg.max_leverage, cfg.default_leverage))

\* The override_with_cap branch of the min-notional policy.
MinNotionalOverride(cfg, constraints, entry, stop_dist, risk_budget, margin_limit, lev, equity) ==
  LET min_notional == MinNotional(constraints)
      qty2 == BumpMinQty(CeilToStep(RDiv(min_notional, entry), constraints.qty_step),
                         constraints)
      notional2 == RMul(qty2, entry)
      risk2 == RMul(qty2, stop_dist)
      needed_lev2 == RCeil(RDiv(notional2, margin_limit))
      lev2 == Min2(cfg.max_leverage, Max2(lev, needed_lev2))
  IN IF RGt(risk2, RMul(risk_budget, cfg.max_risk_multiplier_on_override))
     THEN RiskPlanRejected("min_notional_override_risk_too_high")
     ELSE IF IsSetR(cfg.max_risk_override_usdt) /\ RGt(risk2, cfg.max_risk_override_usdt)
     THEN RiskPlanRejected("min_notional_override_cap_exceeded")
     ELSE IF RGt(RDiv(notional2, RInt(lev)), margin_limit)
     THEN IF RGt(RDiv(notional2, RInt(lev2)), margin_limit)
          THEN RiskPlanRejected("min_notional_override_margin_too_high")
          ELSE RiskPlanOk(qty2, notional2, lev2, stop_dist, equity)
     ELSE RiskPlanOk(qty2, notional2, lev, stop_dist, equity)

\* RiskEngineV1.build_plan
RiskEngineBuildPlan(cfg, account, constraints, decision) ==
  LET conf == IF IsSetR(decision.confidence) THEN decision.confidence ELSE RInt(1)
      equity == account.equity_usdt
      free == account.free_usdt
      risk_budget == RiskBudget(cfg, account)
      entry == RInt(decision.entry_price)
      stop_dist == StopDist(decision)
      step == constraints.qty_step
      qty_risk == BumpMinQty(FloorToStep(RDiv(risk_budget, stop_dist), step), constraints)
      min_notional == MinNotional(constraints)
      qty_cap == IF IsSetR(cfg.max_notional_usdt) /\ Positive(cfg.max_notional_usdt)
                 THEN BumpMinQty(RMin(qty_risk,
                                      FloorToStep(RDiv(cfg.max_notional_usdt, entry), step)),
                                 constraints)
                 ELSE qty_risk
      notional_cap == RMul(qty_cap, entry)
      lev0 == InitialLeverage(cfg)
      margin_limit == MarginLimit(cfg, account)
      lev == IF RGt(RDiv(notional_cap, RInt(lev0)), margin_limit)
             THEN Max2(lev0, Min2(cfg.max_leverage,
                                  Max2(1, RCeil(RDiv(notional_cap, margin_limit)))))
             ELSE lev0
      qty == IF RGt(RDiv(notional_cap, RInt(lev)), margin_limit)
             THEN BumpMinQty(RMin(qty_cap,
                                  FloorToStep(RDiv(RMul(margin_limit, RInt(lev)), entry), step)),
                             constraints)
             ELSE qty_cap
      notional == RMul(qty, entry)
  IN IF RLt(conf, cfg.min_confidence) THEN RiskPlanRejected("confidence<min_confidence")
     ELSE IF ~(Positive(equity) /\ Positive(free))
     THEN RiskPlanRejected("account_balance_invalid")
     ELSE IF ~Positive(risk_budget) THEN RiskPlanRejected("risk_budget_invalid")
     ELSE IF ~Positive(stop_dist) THEN RiskPlanRejected("stop_distance_invalid")
     ELSE IF ~Positive(qty_risk) THEN RiskPlanRejected("qty_invalid")
     ELSE IF ~Positive(margin_limit) THEN RiskPlanRejected("margin_limit_invalid")
     ELSE IF RGt(RDiv(notional, RInt(lev)), margin_limit)
     THEN RiskPlanRejected("margin_too_high")
     ELSE IF ~Positive(qty) THEN RiskPlanRejected("qty_too_small_after_margin")
     ELSE IF RLt(notional, min_notional)
     THEN IF cfg.min_notional_policy # "override_with_cap"
          THEN RiskPlanRejected("notional<min_notional")
          ELSE MinNotionalOverride(cfg, constraints, entry, stop_dist, risk_budget,
                                   margin_limit, lev, equity)
     ELSE RiskPlanOk(qty, notional, lev, stop_dist, equity)

\* The configurations, accounts, venue constraints and decisions of the
\* calls.  min_notional_policy is lower-cased by the engine; the values
\* drawn are already lower case.
RiskConfigs ==
  [ risk_per_trade_pct : { Rat(1, 4), RInt(5) },
    risk_per_trade_usdt : { NoneR, RInt(2) },
    default_leverage : { 3 },
    max_leverage : { 1, 10 },
    margin_utilization : { Rat(3, 10) },
    max_notional_usdt : { NoneR, RInt(50) },
    max_exposure_pct_per_symbol : { NoneR, RInt(10) },
    min_notional_policy : { "skip", "override_with_cap" },
    max_risk_multiplier_on_override : { RInt(2) },
    max_risk_override_usdt : { NoneR, RInt(1) },
    min_confidence : { Rat(11, 20) } ]

AccountStates ==
  { [ equity_usdt |-> RInt(20), free_usdt |-> RInt(20) ],
    [ equity_usdt |-> RInt(100), free_usdt |-> RInt(100) ],
    [ equity_usdt |-> RInt(100), free_usdt |-> RInt(0) ] }

MarketConstraintsSet ==
  [ min_notional_usdt : { RInt(5), RInt(0) },
    min_qty : { NoneR, Rat(1, 10) },
    qty_step : { NoneR, Rat(1, 100), RInt(1) } ]

RiskDecisions ==
  { [ entry_price |-> e, sl_price |-> e - s, confidence |-> c ] :
      e \in { 10, 100 }, s \in { 0, 1, 5 }, c \in { NoneR, Rat(1, 2), Rat(3, 5) } }

\* The calls of RiskEngineV1.build_plan.
RiskCalls ==
  [ op : { "call" }, cfg : RiskConfigs, account : AccountStates,
    constraints : MarketConstraintsSet, decision : RiskDecisions ]

\* RiskEngineV1.build_plan answers the call.
RiskBuildPlan ==
  /\ pc = "risk"
  /\ risk_last.op = "call"
  /\ risk_last' = [ op |-> "build_plan", cfg |-> risk_last.cfg,
                    account |-> risk_last.account,
                    constraints |-> risk_last.constraints,
                    decision |-> risk_last.decision,
                    plan |-> RiskEngineBuildPlan(risk_last.cfg, risk_last.account,
                                                 risk_last.constraints,
                                                 risk_last.decision) ]
  /\ UNCHANGED << open_log, closed_log, next_uuid, guard_last, dataset, uni_last >>
  /\ UNCHANGED << loop_vars, api_vars, snap_vars >>

InitRisk ==
  /\ InitStores
  /\ InitApi
  /\ pc = "risk"
  /\ run = NoRun
  /\ exit_code = None
  /\ tick = 0
  /\ bar = 1
  /\ loc = NoLoc
  /\ obs = NoObs
  /\ clock = 0
  /\ snap_files = {}
  /\ snap_last = NoSnapLast
  /\ guard_last = NoCall
  /\ dataset = NoCall
  /\ uni_last = NoCall
  /\ risk_last \in RiskCalls

NextRisk == RiskBuildPlan

SpecRisk == InitRisk /\ [][NextRisk]_vars

\* -------------------------------------------------------------- risk guard
\* Times are seconds since the epoch, amounts of the ledger whole USDT.
MaxLedger == 2

DaySec == 86400

\* The start of the UTC day of a time.
DayStart(now_utc) == now_utc - (now_utc % DaySec)

\* _trade_pnl_usdt
TradePnlUsdt(t) ==
  IF t.reward_state.kind = "none" THEN 0
  ELSE IF IsSet(t.reward_state.pnl_usdt) THEN t.reward_state.pnl_usdt
  ELSE IF IsSet(t.execution_state.qty)
       THEN t.execution_state.qty * t.reward_state.pnl_raw
       ELSE t.reward_state.pnl_raw

\* sorted(..., key=exit_time_utc): one insertion of the stable sort.
RECURSIVE InsertByExit(_, _)
InsertByExit(s, t) ==
  IF s = << >> THEN << t >>
  ELSE IF s[Len(s)].execution_state.exit_time_utc <= t.execution_state.exit_time_utc
       THEN Append(s, t)
       ELSE Append(InsertByExit(SubSeq(s, 1, Len(s) - 1), t), s[Len(s)])

RECURSIVE SortByExit(_)
SortByExit(s) ==
  IF s = << >> THEN << >>
  ELSE InsertByExit(SortByExit(SubSeq(s, 1, Len(s) - 1)), s[Len(s)])

\* closed_sorted: the trades with an exit time, by exit time.
HasExit(t) == Truthy(t.execution_state.exit_time_utc)

ClosedSorted(closed_trades) == SortByExit(SelectSeq(closed_trades, HasExit))

\* today: the trades that exited on the UTC day of now_utc.
Today(closed_sorted, now_utc) ==
  LET ExitedToday(t) == t.execution_state.exit_time_utc >= DayStart(now_utc)
  IN SelectSeq(closed_sorted, ExitedToday)

RECURSIVE SumPnl(_)
SumPnl(s) == IF s = << >> THEN 0 ELSE TradePnlUsdt(s[1]) + SumPnl(Tail(s))

\* A guard that never counts a loss.
NoLossStreak(closed_sorted) == 0

\* The number of losses at the end of closed_sorted.
RECURSIVE LossStreak(_)
LossStreak(closed_sorted) ==
  IF closed_sorted = << >> THEN 0
  ELSE IF TradePnlUsdt(closed_sorted[Len(closed_sorted)]) < 0
       THEN 1 + LossStreak(SubSeq(closed_sorted, 1, Len(closed_sorted) - 1))
       ELSE 0

RiskGuardResult(ok, reason) == [ ok |-> ok, reason |-> reason ]

\* RiskGuardV1.check; equity_usdt is a rational amount.
RiskGuardCheck(cfg, closed_trades, now_utc, equity_usdt) ==
  LET closed_sorted == ClosedSorted(closed_trades)
      today == Today(closed_sorted, now_utc)
      pnl_today == SumPnl(today)
      n_today == Len(today)
      last_exit == closed_sorted[Len(closed_sorted)].execution_state.exit_time_utc
      cap == RMul(equity_usdt, Rat(cfg.max_daily_loss_pct, 100))
  IN IF /\ cfg.cooldown_sec # 0
        /\ closed_sorted # << >>
        /\ last_exit # 0
        /\ now_utc - last_exit < cfg.cooldown_sec
     THEN RiskGuardResult(FALSE, "cooldown")
     ELSE IF IsSet(cfg.max_trades_per_day) /\ n_today >= cfg.max_trades_per_day
     THEN RiskGuardResult(FALSE, "max_trades_per_day")
     ELSE IF /\ IsSet(cfg.max_daily_loss_usdt)
             /\ cfg.max_daily_loss_usdt > 0
             /\ pnl_today <= -Abs(cfg.max_daily_loss_usdt)
     THEN RiskGuardResult(FALSE, "max_daily_loss_usdt")
     ELSE IF /\ IsSet(cfg.max_daily_loss_pct)
             /\ cfg.max_daily_loss_pct > 0
             /\ Positive(equity_usdt)
             /\ RLe(RInt(pnl_today), Rat(-Abs(cap.n), cap.d))
     THEN RiskGuardResult(FALSE, "max_daily_loss_pct")
     ELSE IF /\ cfg.max_consecutive_losses > 0
             /\ LossStreak(closed_sorted) >= cfg.max_consecutive_losses
     THEN RiskGuardResult(FALSE, "max_consecutive_losses")
     ELSE RiskGuardResult(TRUE, "ok")

\* RiskGuardV1.ok on a readable ledger.
RiskGuardOk(cfg, closed_trades, account, now_utc) ==
  RiskGuardCheck(cfg, closed_trades, now_utc, account.equity_usdt).ok

\* The guard configurations: a limit that is not configured is None
\* (cooldown_sec and max_consecutive_losses: 0).
RiskGuardConfigs ==
  [ max_daily_loss_usdt : { None, 3 },
    max_daily_loss_pct : { None, 10 },
    max_consecutive_losses : { 0, 2 },
    cooldown_sec : { 0, 60 },
    max_trades_per_day : { None, 2 } ]

GuardNow == 2 * DaySec + 100

ClosedTrade(exit_time_utc, qty, reward_state) ==
  [ execution_state |-> [ exit_time_utc |-> exit_time_utc, qty |-> qty ],
    reward_state |-> reward_state ]

GuardReward(pnl_usdt, pnl_raw) ==
  [ kind |-> "reward", pnl_usdt |-> pnl_usdt, pnl_raw |-> pnl_raw ]

\* Rows of trades_closed.csv: losses and wins of yesterday and of today, a
\* row without exit time, a row without reward, a reward without pnl_usdt.
GuardTrades ==
  { ClosedTrade(0, 1, GuardReward(-2, -2)),
    ClosedTrade(GuardNow - 200, 1, GuardReward(-2, -2)),
    ClosedTrade(GuardNow - 200, 1, GuardReward(3, 3)),
    ClosedTrade(GuardNow - 70, 1, GuardReward(-2, -2)),
    ClosedTrade(GuardNow - 70, 1, GuardReward(3, 3)),
    ClosedTrade(GuardNow - 20, 1, GuardReward(-2, -2)),
    ClosedTrade(GuardNow - 20, 1, NoReward),
    ClosedTrade(GuardNow - 70, 2, GuardReward(None, -1)) }

GuardLedgers == UNION { [ 1 .. n -> GuardTrades ] : n \in 0 .. MaxLedger }

\* The sizing inputs of the gated iteration: a plan that is accepted on a
\* funded account.
GuardRiskConfig ==
  [ risk_per_trade_pct |-> RInt(5), risk_per_trade_usdt |-> NoneR,
    default_leverage |-> 3, max_leverage |-> 10,
    margin_utilization |-> Rat(3, 10), max_notional_usdt |-> NoneR,
    max_exposure_pct_per_symbol |-> NoneR, min_notional_policy |-> "skip",
    max_risk_multiplier_on_override |-> RInt(2),
    max_risk_override_usdt |-> NoneR, min_confidence |-> Rat(11, 20) ]

GuardConstraints ==
  [ min_notional_usdt |-> RInt(5), min_qty |-> NoneR, qty_step |-> NoneR ]

GuardDecision == [ entry_price |-> 10, sl_price |-> 9, confidence |-> NoneR ]

\* The account, guard and sizing part of one symbol's iteration.
GuardedIteration(live, guard_paper, cfg, closed_trades, now_utc, equity) ==
  LET account == [ equity_usdt |-> RInt(equity), free_usdt |-> RInt(equity) ]
      use_risk_guard == live \/ guard_paper
      res == RiskGuardCheck(cfg, closed_trades, now_utc, account.equity_usdt)
      plan == RiskEngineBuildPlan(GuardRiskConfig, account, GuardConstraints, GuardDecision)
  IN IF live
     THEN [ outcome |-> "raised", use_risk_guard |-> use_risk_guard,
            reason |-> "AttributeError" ]
     ELSE IF use_risk_guard /\ ~RiskGuardOk(cfg, closed_trades, account, now_utc)
     THEN [ outcome |-> "risk_guard_block", use_risk_guard |-> use_risk_guard,
            reason |-> res.reason ]
     ELSE IF ~plan.ok
     THEN [ outcome |-> "plan_block", use_risk_guard |-> use_risk_guard,
            reason |-> plan.reason ]
     ELSE [ outcome |-> "opened", use_risk_guard |-> use_risk_guard, reason |-> "ok" ]

\* The iterations that reach the account reading.
GuardCalls ==
  { [ op |-> "call", live |-> mode[1], guard_paper |-> mode[2], cfg |-> cfg,
      closed |-> closed, now_utc |-> GuardNow, equity |-> equity ] :
      mode \in { << FALSE, FALSE >>, << FALSE, TRUE >>, << TRUE, FALSE >> },
      cfg \in RiskGuardConfigs, closed \in GuardLedgers, equity \in { 0, 20 } }

\* The iteration runs.
GuardGate ==
  /\ pc = "guard"
  /\ guard_last.op = "call"
  /\ \E r \in { GuardedIteration(guard_last.live, guard_last.guard_paper, guard_last.cfg,
                                 guard_last.closed, guard_last.now_utc,
                                 guard_last.equity) } :
       guard_last' = [ op |-> "gate", cfg |-> guard_last.cfg,
                       closed |-> guard_last.closed, now_utc |-> guard_last.now_utc,
                       equity |-> guard_last.equity,
                       use_risk_guard |-> r.use_risk_guard,
                       outcome |-> r.outcome, reason |-> r.reason ]
  /\ UNCHANGED << open_log, closed_log, next_uuid, risk_last, dataset, uni_last >>
  /\ UNCHANGED << loop_vars, api_vars, snap_vars >>

InitGuard ==
  /\ InitStores
  /\ InitApi
  /\ pc = "guard"
  /\ run = NoRun
  /\ exit_code = None
  /\ tick = 0
  /\ bar = 1
  /\ loc = NoLoc
  /\ obs = NoObs
  /\ clock = 0
  /\ snap_files = {}
  /\ snap_last = NoSnapLast
  /\ risk_last = NoCall
  /\ dataset = NoCall
  /\ uni_last = NoCall
  /\ guard_last \in GuardCalls

NextGuard == GuardGate

SpecGuard == InitGuard /\ [][NextGuard]_vars

\* --------------------------------------------------------- dataset exports
\* The RL and the supervised-scorer dataset use cases of one data directory.
\* A closed trade is the record of what a build reads of it: its id, whether
\* its entry and exit snapshots are stored and whether it carries a reward.
\* The export-state file holds the two id lists; each use case holds its own
\* set in memory, loaded when the process starts.
MaxClosed == 2

NoStateFile == [ exists |-> FALSE, rl |-> {}, scorer |-> {} ]

\* _load_state: the ids under the use case's key, none without a file.
LoadState(file, key) == IF file.exists THEN file[key] ELSE {}

\* _save_state: the payload of the file with the use case's key replaced.
SaveState(file, key, ids) == [ file EXCEPT !.exists = TRUE, ![key] = ids ]

RowIds(rows) == { rows[i] : i \in DOMAIN rows }

\* build_rl_dataset_rows(only_new=True): the episode ids of the rows.
BuildRlRows(closed, exported) ==
  LET Emit(t) == /\ t.trade_id \notin exported
                 /\ t.entry_snap /\ t.exit_snap /\ t.reward
      kept == SelectSeq(closed, Emit)
  IN [ i \in DOMAIN kept |-> kept[i].trade_id ]

\* ScorerDatasetBuildUsecase.build_rows(only_new=True): the trade ids.
BuildScorerRows(closed, exported) ==
  LET Emit(t) == t.trade_id \notin exported /\ t.reward /\ t.entry_snap
      kept == SelectSeq(closed, Emit)
  IN [ i \in DOMAIN kept |-> kept[i].trade_id ]

\* A build that marks nothing as exported.
MarkNothing(exported, rows) == exported

\* The "mark exported" loop of build_and_save.
MarkExported(exported, rows) == exported \cup RowIds(rows)

\* build_and_save of either use case: the rows appended, the set in memory
\* and the state file after it.
BuildAndSave(rows, exported, file, key) ==
  IF rows = << >>
  THEN [ appended |-> << >>, exported |-> exported, file |-> file ]
  ELSE LET marked == MarkExported(exported, rows)
       IN [ appended |-> rows, exported |-> marked,
            file |-> SaveState(file, key, marked) ]

\* A trade is closed: a row is added to trades_closed.csv.
DataClose(entry_snap, exit_snap, reward) ==
  /\ pc = "data"
  /\ Len(dataset.closed) < MaxClosed
  /\ dataset' = [ dataset EXCEPT
                    !.op = "close",
                    !.closed = Append(@, [ trade_id |-> Len(@) + 1,
                                           entry_snap |-> entry_snap,
                                           exit_snap |-> exit_snap,
                                           reward |-> reward ]) ]

\* DatasetBuildUsecase.build_and_save
DataBuildRl ==
  /\ pc = "data"
  /\ \E r \in { BuildAndSave(BuildRlRows(dataset.closed, dataset.rl_ids),
                             dataset.rl_ids, dataset.file, "rl") } :
       dataset' = [ dataset EXCEPT
                      !.op = "build_rl", !.n = Len(r.appended),
                      !.fresh = Len(dataset.closed) - dataset.rl_seen,
                      !.rl_seen = Len(dataset.closed),
                      !.rl_rows = @ \o r.appended,
                      !.rl_ids = r.exported, !.file = r.file ]

\* ScorerDatasetBuildUsecase.build_and_save
DataBuildScorer ==
  /\ pc = "data"
  /\ \E r \in { BuildAndSave(BuildScorerRows(dataset.closed, dataset.scorer_ids),
                             dataset.scorer_ids, dataset.file, "scorer") } :
       dataset' = [ dataset EXCEPT
                      !.op = "build_scorer", !.n = Len(r.appended),
                      !.fresh = Len(dataset.closed) - dataset.scorer_seen,
                      !.scorer_seen = Len(dataset.closed),
                      !.scorer_rows = @ \o r.appended,
                      !.scorer_ids = r.exported, !.file = r.file ]

\* The process is started again: both use cases are constructed anew.
DataRestart ==
  /\ pc = "data"
  /\ dataset.op # "restart"
  /\ dataset' = [ dataset EXCEPT
                    !.op = "restart", !.restarted = TRUE,
                    !.rl_ids = LoadState(dataset.file, "rl"),
                    !.scorer_ids = LoadState(dataset.file, "scorer") ]

InitData ==
  /\ InitStores
  /\ InitApi
  /\ pc = "data"
  /\ run = NoRun
  /\ exit_code = None
  /\ tick = 0
  /\ bar = 1
  /\ loc = NoLoc
  /\ obs = NoObs
  /\ clock = 0
  /\ snap_files = {}
  /\ snap_last = NoSnapLast
  /\ risk_last = NoCall
  /\ guard_last = NoCall
  /\ uni_last = NoCall
  /\ dataset = [ op |-> "start", closed |-> << >>, file |-> NoStateFile,
                 rl_ids |-> LoadState(NoStateFile, "rl"),
                 scorer_ids |-> LoadState(NoStateFile, "scorer"),
                 rl_rows |-> << >>, scorer_rows |-> << >>,
                 n |-> 0, fresh |-> 0, rl_seen |-> 0, scorer_seen |-> 0,
                 restarted |-> FALSE ]

NextData ==
  /\ \/ \E entry_snap \in BOOLEAN, exit_snap \in BOOLEAN, reward \in BOOLEAN :
          DataClose(entry_snap, exit_snap, reward)
     \/ DataBuildRl
     \/ DataBuildScorer
     \/ DataRestart
  /\ UNCHANGED << loop_vars, api_vars, snap_vars >>
  /\ UNCHANGED << open_log, closed_log, next_uuid, risk_last, guard_last, uni_last >>

SpecData == InitData /\ [][NextData]_vars

\* ------------------------------------------------------ universe selection
\* The selection step of UniverseSelectorV3.select (UniverseSelectorV2.select
\* has the same step): `scored` is the list of the candidates that passed
\* the filters, best score first; `no_rets` are the symbols whose returns
\* cannot be fetched, `corr` the pairs whose correlation exceeds max_corr.
MaxPrev == 2

UniSymbols == { "A", "B", "C" }

Take(s, n) == SubSeq(s, 1, Min2(n, Len(s)))

\* sticky_pool
StickyPool(cfg, prev, scored) ==
  LET Scored(s) == s \in Range(scored)
  IN IF cfg.sticky_enabled /\ prev # << >>
     THEN Take(SelectSeq(prev, Scored), Max2(0, cfg.sticky_keep))
     ELSE << >>

\* "for row in scored": the greedy, correlation-aware selection from the
\* i-th candidate on.
RECURSIVE GreedySelect(_, _, _, _, _, _)
GreedySelect(cfg, selected, scored, i, no_rets, corr) ==
  IF i > Len(scored) \/ Len(selected) >= cfg.target_symbols THEN selected
  ELSE LET sym == scored[i]
           clash == \E k \in DOMAIN selected :
                      /\ selected[k] \notin no_rets
                      /\ { sym, selected[k] } \in corr
       IN IF sym \in Range(selected) \/ sym \in no_rets \/ clash
          THEN GreedySelect(cfg, selected, scored, i + 1, no_rets, corr)
          ELSE GreedySelect(cfg, Append(selected, sym), scored, i + 1, no_rets, corr)

\* The "selected" list of the report.
UniverseSelect(cfg, prev, scored, no_rets, corr) ==
  GreedySelect(cfg, StickyPool(cfg, prev, scored), scored, 1, no_rets, corr)

UniverseConfigs ==
  [ target_symbols : 1 .. 2, sticky_enabled : BOOLEAN, sticky_keep : 0 .. 2 ]

\* The previous selection is the "symbols" list of the last report: a list
\* without repetitions.
PrevSelections ==
  { p \in UNION { [ 1 .. n -> UniSymbols ] : n \in 0 .. MaxPrev } :
      \A i, j \in DOMAIN p : p[i] = p[j] => i = j }

ScoredLists == { << >>, << "A" >>, << "B", "A" >>, << "A", "B", "C" >>, << "C", "A", "B" >> }

UniverseCalls ==
  [ op : { "call" }, cfg : UniverseConfigs, prev : PrevSelections,
    scored : ScoredLists, no_rets : { {}, { "B" } },
    corr : { {}, { { "A", "B" } }, { { "A", "C" }, { "B", "C" } } } ]

\* UniverseSelectorV3.select answers the call.
UniverseSelectStep ==
  /\ pc = "universe"
  /\ uni_last.op = "call"
  /\ uni_last' = [ op |-> "select", cfg |-> uni_last.cfg, prev |-> uni_last.prev,
                   scored |-> uni_last.scored,
                   selected |-> UniverseSelect(uni_last.cfg, uni_last.prev,
                                               uni_last.scored, uni_last.no_rets,
                                               uni_last.corr) ]
  /\ UNCHANGED << loop_vars, api_vars, snap_vars >>
  /\ UNCHANGED << open_log, closed_log, next_uuid, risk_last, guard_last, dataset >>

InitUniverse ==
  /\ InitStores
  /\ InitApi
  /\ pc = "universe"
  /\ run = NoRun
  /\ exit_code = None
  /\ tick = 0
  /\ bar = 1
  /\ loc = NoLoc
  /\ obs = NoObs
  /\ clock = 0
  /\ snap_files = {}
  /\ snap_last = NoSnapLast
  /\ risk_last = NoCall
  /\ guard_last = NoCall
  /\ dataset = NoCall
  /\ uni_last \in UniverseCalls

NextUniverse == UniverseSelectStep

SpecUniverse == InitUniverse /\ [][NextUniverse]_vars

\* ---------------------------------------------------- claims on the loop
\* Every trade on file.
AllTrades == Range(open_log) \cup Range(closed_log)

\* C1: a start with BOT_MODE=live and LIVE_CONFIRM not set to a true value
\* ends in a configuration error, exit status 1, before the loop: the step
\* of main() goes to exit without entering the live loop, without a tick and
\* without a call on the venue, and nothing but a new start follows an exit.
C1_LiveNeedsConfirm ==
  /\ [][ (pc = "boot" /\ LowerStrip(obs'.bot_mode) = "live"
                      /\ ~EnvBool(obs'.live_confirm, "0")) =>
           /\ pc' = "exit" /\ exit_code' = 1
           /\ ~run'.live
           /\ tick' = tick /\ venue_calls' = venue_calls /\ orders_log' = orders_log
       ]_vars
  /\ [][ pc = "exit" => (pc' = "boot" /\ tick' = tick /\ venue_calls' = venue_calls) ]_vars

\* C1 witness: on a data directory that holds an open trade, a start with
\* BOT_MODE=" LIVE " and LIVE_CONFIRM="no" has exited with status 1.
C1_Witness ==
  /\ pc = "exit" /\ exit_code = 1
  /\ obs.kind = "main" /\ obs.bot_mode = " LIVE " /\ obs.live_confirm = "no"
  /\ open_log # << >>

\* C2: in paper mode the loop makes no state-changing call on the venue (no
\* order placed or cancelled, no position mode, margin mode or leverage set):
\* every such call on record was made by a live run.
C2_PaperNeverTouchesVenue ==
  \A c \in venue_calls : c.live

\* C2 witness: a paper run has opened trades and has closed one on its stop,
\* and no call on the venue is on record.
C2_Witness ==
  /\ ~run.live /\ pc = "tick"
  /\ open_log # << >>
  /\ \E i \in DOMAIN closed_log :
       /\ closed_log[i].execution_state.exit_type = "SL"
       /\ closed_log[i].execution_state.client_order_id # None
  /\ venue_calls = {}

\* C3: with a list of distinct symbols, a trade is opened only while the
\* number of OPEN trades on file is strictly below max_open_positions.
C3_MaxOpenRespected ==
  (/\ obs.kind = "symbol" /\ obs.outcome = "opened"
   /\ Cardinality(Range(run.symbols)) = Len(run.symbols))
  => obs.open_before < run.max_open_positions

\* C4: in live mode, when the monitor sees the last price at or beyond the
\* stop of an open trade that has no stop order (sl_order_id null) while the
\* venue position is still open, it closes the trade.
C4_LiveStopEnforcedByPrice ==
  (/\ obs.kind = "monitor" /\ obs.live
   /\ obs.sl_order_id = None
   /\ obs.hit_sl /\ ~obs.flat) => obs.closed

\* C8: ticks replayed on the same closed bar open at most one trade for a
\* symbol: two trades of a symbol that were opened at different times do not
\* share their entry snapshot id.
C8_OneOpenPerBar ==
  \A t1 \in AllTrades, t2 \in AllTrades :
    (/\ t1.symbol = t2.symbol
     /\ t1.entry_snapshot_id = t2.entry_snapshot_id
     /\ t1.execution_state.entry_time_utc # None
     /\ t2.execution_state.entry_time_utc # None
     /\ t1.execution_state.entry_time_utc # t2.execution_state.entry_time_utc)
    => t1.trade_id = t2.trade_id

\* C9: decision-cycle rows are unique per decision_id: two rows written in
\* different ticks never carry the same decision_id.
C9_DecisionIdUnique ==
  \A i \in DOMAIN decision_cycles, j \in DOMAIN decision_cycles :
    (/\ decision_cycles[i].decision_id = decision_cycles[j].decision_id
     /\ decision_cycles[i].cycle_time_utc # decision_cycles[j].cycle_time_utc)
    => i = j

\* The rows of the decision-cycle log written in the tick of cycle time ct.
CycleRows(ct) == { i \in DOMAIN decision_cycles : decision_cycles[i].cycle_time_utc = ct }

\* C10: when a tick is over, the decision-cycle log holds one row of that
\* tick for each entry of the symbol list.
C10_RowPerSymbol ==
  (pc = "tick" /\ loc.cycle_time_utc # 0) =>
    Cardinality(CycleRows(loc.cycle_time_utc)) = Len(run.symbols)

\* C11: a failure while one symbol is processed does not end the tick: when
\* the iteration of a symbol that is not the last of the list raises, the
\* loop goes on to the next symbol of the same tick.
C11_PerSymbolFailureTolerated ==
  (obs.kind = "symbol" /\ obs.outcome = "raised" /\ ~obs.last_symbol) => pc = "open"

\* Where an element occurs in a sequence of writes.
Positions(writes, P(_)) == { i \in DOMAIN writes : P(writes[i]) }

IsPlan(w) == w = "trade.open.plan"

IsOrderPlace(w) == w \in { "order.place.entry_order_id", "order.place.tp_order_id",
                           "order.place.sl_order_id" }

IsPersist(w) == w = "update_execution_state"

AllAggregates ==
  (IF agg = NoTrade THEN {} ELSE { agg }) \cup Range(open_log) \cup Range(closed_log)

\* C5: CLOSED is terminal.  A call of attach_execution on an aggregate whose
\* execution status is CLOSED raises and changes neither the aggregate
\* (execution state, reward) nor any stored row, whatever the status of the
\* execution handed in; update_execution_state and resolve_trade on a trade
\* that is already CLOSED report failure and write nothing.
C5_ClosedIsTerminal ==
  [][ /\ (last'.op = "attach_execution" /\ last'.target_closed) =>
           /\ last'.result = "error"
           /\ agg' = agg /\ open_log' = open_log /\ closed_log' = closed_log
      /\ (last'.op = "update_execution_state" /\ last'.target_closed) =>
           /\ last'.result = "false"
           /\ agg' = agg /\ open_log' = open_log /\ closed_log' = closed_log
      /\ (last'.op = "resolve_trade" /\ last'.target_closed) =>
           /\ last'.result \in { "not_found", "already_closed" }
           /\ agg' = agg /\ open_log' = open_log /\ closed_log' = closed_log
    ]_vars

\* C5 witness: attach_execution of a CLOSED execution was called on an
\* aggregate that was already CLOSED and carried its reward, and raised.
C5_Witness ==
  /\ last.op = "attach_execution" /\ last.target_closed
  /\ last.input_status = "CLOSED"
  /\ last.result = "error"
  /\ agg.reward_state # NoReward

\* C6: a reward is only ever on a CLOSED trade.  Every aggregate with a
\* non-null reward_state has execution status CLOSED, and attach_reward on
\* an aggregate that is not CLOSED raises and leaves it without a reward.
C6_RewardOnlyOnClosed ==
  /\ \A t \in AllAggregates :
       t.reward_state # NoReward => t.execution_state.status = "CLOSED"
  /\ (last.op = "attach_reward" /\ ~last.target_closed) =>
       /\ last.result = "error"
       /\ ~last.changed
       /\ agg.reward_state = NoReward

\* C6 witness: attach_reward was refused on an OPEN aggregate while a closed
\* trade with its reward is on file.
C6_Witness ==
  /\ last.op = "attach_reward" /\ ~last.target_closed /\ last.result = "error"
  /\ agg.execution_state.status = "OPEN"
  /\ \E i \in DOMAIN closed_log : closed_log[i].reward_state # NoReward

\* C7: closing requires entry and exit fill data.  Every aggregate whose
\* execution status is CLOSED holds a non-null entry time, entry fill price,
\* exit time and exit fill price.
C7_ClosedHasFills ==
  \A t \in AllAggregates :
    t.execution_state.status = "CLOSED" =>
      /\ IsSet(t.execution_state.entry_time_utc)
      /\ IsSet(t.execution_state.entry_fill_price)
      /\ IsSet(t.execution_state.exit_time_utc)
      /\ IsSet(t.execution_state.exit_fill_price)

\* -------------------------------------------------- claims on the stores
\* The trade ids handed out so far by open_trade (which draws a fresh uuid4
\* per trade; in the API specification nothing else draws one).
OpenedIds == 1 .. (next_uuid - 1)

\* C13: read back from the files (as a fresh process does), list_open
\* returns exactly the trades that were opened and not closed, each once and
\* with status OPEN, and every closed trade is in the closed log and not in
\* list_open.
C13_ListOpenExact ==
  LET lo == ListOpen(open_log)
      open_ids == { lo[i].trade_id : i \in DOMAIN lo }
  IN /\ \A i \in DOMAIN lo, j \in DOMAIN lo : lo[i].trade_id = lo[j].trade_id => i = j
     /\ \A i \in DOMAIN lo : lo[i].execution_state.status = "OPEN"
     /\ open_ids \cap ClosedIds(closed_log) = {}
     /\ open_ids \cup ClosedIds(closed_log) = OpenedIds

\* C14: snapshot creation is idempotent and write-once.  A build of a bar
\* yields the id derived from (exchange, symbol, LTF timeframe, LTF close
\* time); creating a snapshot whose id is stored returns the stored snapshot
\* (and the loop's step does not fall back); a stored snapshot is never
\* changed or removed.
C14_SnapshotWriteOnce ==
  /\ [](/\ (snap_last.op = "step" /\ ~snap_last.fallback /\ snap_last.used # NoBars) =>
             snap_last.raw_id = Sha1Id(snap_last.returned.context.exchange,
                                       snap_last.returned.symbol,
                                       snap_last.returned.ltf.tf,
                                       snap_last.returned.snapshot_time_utc)
        /\ (snap_last.op = "step" /\ snap_last.existed) =>
             (~snap_last.fallback /\ snap_last.returned = snap_last.stored_before)
        /\ (snap_last.op = "create" /\ snap_last.existed /\ ~snap_last.raised) =>
             snap_last.returned = snap_last.stored_before)
  /\ [][ \A f \in snap_files : f \in snap_files' ]_vars

\* C14 witness: a bar whose snapshot was stored earlier is built again at a
\* later time, and the step returns the snapshot stored at the earlier time.
C14_Witness ==
  /\ snap_last.op = "step" /\ snap_last.existed /\ ~snap_last.fallback
  /\ snap_last.returned.observer_time_utc < snap_last.now
  /\ snap_last.returned \in snap_files

\* C15: a stored snapshot is built from closed bars only: for the LTF and
\* for every HTF that contributed, the most recent bar used had closed at
\* build time (bar open time + timeframe <= build time).
C15_OnlyClosedBars ==
  (snap_last.op = "step" /\ ~snap_last.fallback) =>
    \A tf \in DOMAIN snap_last.used : snap_last.used[tf] + TfToSec(tf) <= snap_last.now

\* C16: every stored snapshot has schema_version v3, snapshot_time_utc <=
\* observer_time_utc, ltf.tf = 5m and an htf block with 15m, 1h and 4h.
C16_StoredSnapshotShape ==
  \A f \in snap_files :
    /\ f.schema_version = "v3"
    /\ f.snapshot_time_utc <= f.observer_time_utc
    /\ f.ltf.tf = "5m"
    /\ { "15m", "1h", "4h" } \subseteq DOMAIN f.htf

\* C17: create_snapshot on a dict that holds a forbidden key (decision,
\* execution_state, reward_state, risk_unit, tp_price, sl_price, rr, a key
\* that starts with pnl, a key that starts with exit_) raises, and no
\* snapshot of that dict is stored.
C17_ForbiddenKeyRejected ==
  LET forbidden == { "decision", "execution_state", "reward_state", "risk_unit",
                     "tp_price", "sl_price", "rr", "pnl", "pnl_raw", "pnl_r", "pnl_usdt",
                     "exit_price", "exit_time_utc", "exit_type" }
  IN (snap_last.op = "create" /\ snap_last.raw_keys \cap forbidden # {}) =>
       /\ snap_last.raised
       /\ ~snap_last.existed => snap_last.raw_id \notin StoredIds(snap_files)

\* ------------------------------------------- claims on the risk components
\* C18: every plan returned with ok = true has a positive quantity that is a
\* multiple of the venue's qty_step (when the venue gives one), a notional
\* equal to qty * entry and at least the minimum notional, an initial margin
\* notional / leverage of at most margin_utilization * free, and a leverage
\* between 1 and max_leverage.  The configurations have max_leverage >= 1.
C18_OkPlanInvariants ==
  (risk_last.op = "build_plan" /\ risk_last.plan.ok) =>
    LET P == risk_last.plan
        step == risk_last.constraints.qty_step
    IN /\ Positive(P.qty)
       /\ (IsSetR(step) /\ Positive(step)) => RDiv(P.qty, step).d = 1
       /\ P.notional_usdt = RMul(P.qty, RInt(risk_last.decision.entry_price))
       /\ RLe(MinNotional(risk_last.constraints), P.notional_usdt)
       /\ RLe(RDiv(P.notional_usdt, RInt(P.leverage)),
              RMul(risk_last.cfg.margin_utilization, risk_last.account.free_usdt))
       /\ 1 <= P.leverage
       /\ P.leverage <= risk_last.cfg.max_leverage

\* An accepted plan on a venue with a quantity step, whose leverage was
\* raised above the starting one to fit the margin.
C18_Witness ==
  /\ risk_last.op = "build_plan"
  /\ risk_last.plan.ok
  /\ IsSetR(risk_last.constraints.qty_step)
  /\ risk_last.plan.leverage > InitialLeverage(risk_last.cfg)

\* C19: under min_notional_policy = override_with_cap, a call that passes
\* the confidence, balance, budget and stop-distance gates, with no min_qty
\* and no notional cap, whose risk-budget-sized quantity gives a notional
\* below the minimum and a margin within the limit, is answered by raising
\* the quantity to the smallest step multiple that meets the minimum
\* notional: rejected with min_notional_override_risk_too_high when that
\* quantity times the stop distance exceeds risk_budget *
\* max_risk_multiplier_on_override, and otherwise either accepted with that
\* quantity or rejected by the absolute cap or the margin re-check.
C19_OverrideRaisesQty ==
  LET c == risk_last.cfg
      k == risk_last.constraints
      d == risk_last.decision
      budget == RiskBudget(c, risk_last.account)
      stop == StopDist(d)
      entry == RInt(d.entry_price)
      sized == FloorToStep(RDiv(budget, stop), k.qty_step)
      raised == CeilToStep(RDiv(MinNotional(k), entry), k.qty_step)
  IN (/\ risk_last.op = "build_plan"
      /\ c.min_notional_policy = "override_with_cap"
      /\ ~RLt(IF IsSetR(d.confidence) THEN d.confidence ELSE RInt(1), c.min_confidence)
      /\ Positive(risk_last.account.equity_usdt)
      /\ Positive(risk_last.account.free_usdt)
      /\ Positive(budget)
      /\ Positive(stop)
      /\ ~IsSetR(k.min_qty)
      /\ ~IsSetR(c.max_notional_usdt)
      /\ RLt(RMul(sized, entry), MinNotional(k))
      /\ RLe(RDiv(RMul(sized, entry), RInt(InitialLeverage(c))),
             MarginLimit(c, risk_last.account)))
     => IF RGt(RMul(raised, stop), RMul(budget, c.max_risk_multiplier_on_override))
        THEN risk_last.plan.reason = "min_notional_override_risk_too_high"
        ELSE \/ risk_last.plan.ok /\ risk_last.plan.qty = raised
             \/ risk_last.plan.reason \in { "min_notional_override_cap_exceeded",
                                            "min_notional_override_margin_too_high" }

\* C20: with the risk guard enabled, an iteration opens no trade when, over
\* the closed-trade ledger and the equity reading, the last exit is less
\* than cooldown_sec ago, or the trades closed on the current UTC day are
\* max_trades_per_day or more, or their summed pnl is at or below
\* -max_daily_loss_usdt or at or below -equity * max_daily_loss_pct / 100,
\* or the ledger ends with max_consecutive_losses or more losses.  A limit
\* counts when it is configured (cooldown_sec and max_consecutive_losses
\* positive, the others not None).
C20_GuardBlocksOpen ==
  LET c == guard_last.cfg
      exited == { i \in DOMAIN guard_last.closed :
                    guard_last.closed[i].execution_state.exit_time_utc > 0 }
      exit_of(i) == guard_last.closed[i].execution_state.exit_time_utc
      today == { i \in exited : exit_of(i) >= DayStart(guard_last.now_utc) }
      pnl_today == SumPnl(Today(ClosedSorted(guard_last.closed), guard_last.now_utc))
      cooldown == /\ c.cooldown_sec > 0
                  /\ \E i \in exited : guard_last.now_utc - exit_of(i) < c.cooldown_sec
      trades == IsSet(c.max_trades_per_day) /\ Cardinality(today) >= c.max_trades_per_day
      loss_usdt == IsSet(c.max_daily_loss_usdt) /\ pnl_today <= -c.max_daily_loss_usdt
      loss_pct == /\ IsSet(c.max_daily_loss_pct)
                  /\ pnl_today * 100 <= -(guard_last.equity * c.max_daily_loss_pct)
      by_exit == ClosedSorted(guard_last.closed)
      streak == /\ c.max_consecutive_losses > 0
                /\ Len(by_exit) >= c.max_consecutive_losses
                /\ \A i \in (Len(by_exit) - c.max_consecutive_losses + 1) .. Len(by_exit) :
                      TradePnlUsdt(by_exit[i]) < 0
  IN (/\ guard_last.op = "gate"
      /\ guard_last.use_risk_guard
      /\ cooldown \/ trades \/ loss_usdt \/ loss_pct \/ streak)
     => guard_last.outcome # "opened"

\* The guard, enabled in paper mode, blocks an iteration on the loss streak
\* alone.
C20_Witness ==
  /\ guard_last.op = "gate"
  /\ guard_last.use_risk_guard
  /\ guard_last.outcome = "risk_guard_block"
  /\ guard_last.reason = "max_consecutive_losses"

\* --------------------------------------------- claims on the paper monitor
\* C21: in paper mode, a monitored OPEN trade whose symbol has a last price
\* is closed by the iteration exactly when the price touches its TP (LONG:
\* last >= tp, SHORT: last <= tp) or its SL (LONG: last <= sl, SHORT:
\* last >= sl): the closed row has exit type TP when the TP is touched and SL
\* otherwise, and the touched level as exit fill price; a trade whose levels
\* are not touched keeps its row in the open log and gets none in the closed
\* log.  (A last price of 0 stands for a symbol without ticker.)
C21_PaperCloseOnTouch ==
  (obs.kind = "monitor" /\ ~obs.live /\ obs.last_price > 0) =>
    LET t == obs.trade
        d == t.decision
        tp == IF d.direction = "LONG" THEN obs.last_price >= d.tp_price
              ELSE obs.last_price <= d.tp_price
        sl == IF d.direction = "LONG" THEN obs.last_price <= d.sl_price
              ELSE obs.last_price >= d.sl_price
        rows == { i \in DOMAIN closed_log : closed_log[i].trade_id = t.trade_id }
    IN IF tp \/ sl
       THEN /\ GetOpen(open_log, t.trade_id) = NoTrade
            /\ rows # {}
            /\ \A i \in rows :
                 /\ closed_log[i].execution_state.status = "CLOSED"
                 /\ closed_log[i].execution_state.exit_type = (IF tp THEN "TP" ELSE "SL")
                 /\ closed_log[i].execution_state.exit_fill_price =
                      (IF tp THEN d.tp_price ELSE d.sl_price)
       ELSE /\ GetOpen(open_log, t.trade_id) = t
            /\ rows = {}

\* C21 witness: a paper run closed a SHORT trade on its stop.
C21_Witness ==
  /\ obs.kind = "monitor"
  /\ ~obs.live
  /\ obs.trade.decision.direction = "SHORT"
  /\ obs.last_price >= obs.trade.decision.sl_price
  /\ obs.trade.trade_id \in ClosedIds(closed_log)

C23_SelectedWithinTarget ==
  uni_last.op = "select" => Len(uni_last.selected) <= uni_last.cfg.target_symbols

\* C24: every reward attached to a closed trade has mfe >= 0 and mae >= 0,
\* for LONG and for SHORT trades, whatever OHLC window was provided.
C24_ExcursionsNonNegative ==
  \A i \in DOMAIN closed_log :
    closed_log[i].reward_state # NoReward =>
      /\ closed_log[i].reward_state.mfe >= 0
      /\ closed_log[i].reward_state.mae >= 0

\* C25: on a data gap for a symbol (the snapshot build fails and the
\* placeholder snapshot is used) the symbol is skipped for the tick: no trade
\* is opened on a placeholder snapshot.
C25_NoOpenOnPlaceholder ==
  \A t \in AllTrades : t.entry_snapshot_id[1] # "synthetic"

C27_ClosedOnlyWhenFlat ==
  (obs.kind = "monitor" /\ obs.live /\ obs.closed) => obs.position = "flat"

\* C28: at every point of a run there is at most one OPEN trade per symbol,
\* also when the symbol list names a symbol more than once.
C28_OneOpenPerSymbol ==
  \A t1 \in Range(ListOpen(open_log)), t2 \in Range(ListOpen(open_log)) :
    t1.symbol = t2.symbol => t1.trade_id = t2.trade_id

\* C29: the risk of a plan returned with ok = true, qty * stop distance, is
\* within the risk budget or, where the min-notional override can have been
\* applied (policy override_with_cap), within the budget times
\* max_risk_multiplier_on_override; also when the quantity was raised to
\* min_qty.
C29_RiskWithinBudget ==
  (risk_last.op = "build_plan" /\ risk_last.plan.ok) =>
    LET P == risk_last.plan
        cfg == risk_last.cfg
        risk_budget == RiskBudget(cfg, risk_last.account)
        risk == RMul(P.qty, StopDist(risk_last.decision))
    IN \/ RLe(risk, risk_budget)
       \/ /\ cfg.min_notional_policy = "override_with_cap"
          /\ RLe(risk, RMul(risk_budget, cfg.max_risk_multiplier_on_override))

\* C30: after a crash inside update_closed, between the closed-log append
\* and the open-log rewrite, and a restart, the trade is not closed a second
\* time: no trade id has more than one row in the closed log, and a trade id
\* that is in the closed log is not monitored as an open trade.
C30_ClosedOnce ==
  /\ \A i, j \in DOMAIN closed_log :
       closed_log[i].trade_id = closed_log[j].trade_id => i = j
  /\ (obs.kind = "monitor" /\ ~obs.closed) => obs.trade_id \notin ClosedIds(closed_log)

====
